---- MODULE Spec2Model ----
(***************************************************************************)
(* A model of lazyaws: the vim-style navigation package (internal/vim)    *)
(* and the bubbletea Update loop of main.go that drives it.                *)
(*                                                                         *)
(* Go strings are modelled as sequences of one-character strings, Go      *)
(* slices as sequences; indices stored in the state are 0-based as in the  *)
(* source, so element i of a slice s is s[i + 1] here.                     *)
(***************************************************************************)
EXTENDS Integers, Sequences, FiniteSets, Bags, TLC

VARIABLES
    m,          \* the bubbletea model struct (main.go: type model), vimState inlined as m.vimState
    inflight,   \* tea.Cmd's issued by Update whose message has not been delivered yet
    running,    \* FALSE once Update has returned tea.Quit
    user,       \* the repertoire of the user of this behaviour (never changes)
    searchEntry, \* in Search mode: LastSearch as it was when "/" entered the mode (history)
    call        \* harness of the pure-function specifications: inputs and result of one call

vars == <<m, inflight, running, user, searchEntry, call>>

----------------------------------------------------------------------------
(* Bounds of the model                                                     *)

MaxListLen == 10
MaxPageSize == 20
MaxHeight == 30
MaxOffset == 12
MinOffset == 3
MaxItems == 4
MaxInFlight == 1
MaxScroll == 1

----------------------------------------------------------------------------
(* Small helpers                                                           *)

Max(a, b) == IF a >= b THEN a ELSE b

Min(a, b) == IF a <= b THEN a ELSE b

\* Go's integer division truncates toward zero; operands here are >= 0.
Div(a, b) == a \div b

----------------------------------------------------------------------------
(* internal/vim/vim.go                                                     *)

NormalMode == "NormalMode"
SearchMode == "SearchMode"
CommandMode == "CommandMode"

NavigationActions ==
    { "NoAction", "MoveUp", "MoveDown", "MoveTop", "MoveBottom",
      "MoveHalfPageUp", "MoveHalfPageDown", "MovePageUp", "MovePageDown",
      "EnterSearch", "NextSearchResult", "PrevSearchResult", "EnterCommand" }

\* A bug a maintainer could introduce: MoveDown wraps to the top at the end.
CalculateNewIndexWrap(action, currentIndex, listLength, pageSize) ==
    CASE action = "MoveUp" ->
            IF currentIndex > 0 THEN currentIndex - 1 ELSE currentIndex
      [] action = "MoveDown" ->
            IF currentIndex < listLength - 1 THEN currentIndex + 1 ELSE 0
      [] action = "MoveTop" -> 0
      [] action = "MoveBottom" -> listLength - 1
      [] action = "MoveHalfPageUp" -> Max(currentIndex - Div(pageSize, 2), 0)
      [] action = "MoveHalfPageDown" ->
            currentIndex + Div(pageSize, 2)
      [] action = "MovePageUp" -> Max(currentIndex - pageSize, 0)
      [] action = "MovePageDown" -> Min(currentIndex + pageSize, listLength - 1)
      [] OTHER -> currentIndex

CalculateNewIndex(action, currentIndex, listLength, pageSize) ==
    CASE action = "MoveUp" ->
            IF currentIndex > 0 THEN currentIndex - 1 ELSE currentIndex
      [] action = "MoveDown" ->
            IF currentIndex < listLength - 1 THEN currentIndex + 1 ELSE currentIndex
      [] action = "MoveTop" -> 0
      [] action = "MoveBottom" -> listLength - 1
      [] action = "MoveHalfPageUp" ->
            LET newIndex == currentIndex - Div(pageSize, 2)
            IN  IF newIndex < 0 THEN 0 ELSE newIndex
      [] action = "MoveHalfPageDown" ->
            LET newIndex == currentIndex + Div(pageSize, 2)
            IN  IF newIndex >= listLength THEN listLength - 1 ELSE newIndex
      [] action = "MovePageUp" ->
            LET newIndex == currentIndex - pageSize
            IN  IF newIndex < 0 THEN 0 ELSE newIndex
      [] action = "MovePageDown" ->
            LET newIndex == currentIndex + pageSize
            IN  IF newIndex >= listLength THEN listLength - 1 ELSE newIndex
      [] OTHER -> currentIndex

\* strings.ToLower on one character (ASCII letters; every other character is kept).
ToLowerChar(c) ==
    CASE c = "A" -> "a" [] c = "B" -> "b" [] c = "C" -> "c" [] c = "D" -> "d"
      [] c = "E" -> "e" [] c = "F" -> "f" [] c = "G" -> "g" [] c = "H" -> "h"
      [] c = "I" -> "i" [] c = "J" -> "j" [] c = "K" -> "k" [] c = "L" -> "l"
      [] c = "M" -> "m" [] c = "N" -> "n" [] c = "O" -> "o" [] c = "P" -> "p"
      [] c = "Q" -> "q" [] c = "R" -> "r" [] c = "S" -> "s" [] c = "T" -> "t"
      [] c = "U" -> "u" [] c = "V" -> "v" [] c = "W" -> "w" [] c = "X" -> "x"
      [] c = "Y" -> "y" [] c = "Z" -> "z"
      [] OTHER -> c

ToLower(s) == [i \in 1..Len(s) |-> ToLowerChar(s[i])]

\* strings.Contains: sub occurs in s as a contiguous substring ("" occurs in everything).
Contains(s, sub) ==
    \E i \in 0..(Len(s) - Len(sub)) : SubSeq(s, i + 1, i + Len(sub)) = sub

\* strings.HasPrefix
HasPrefix(s, prefix) ==
    Len(prefix) <= Len(s) /\ SubSeq(s, 1, Len(prefix)) = prefix

\* vim.NewState (MarkPosition is never read by main.go and is left out)
NewState ==
    [ Mode |-> NormalMode,
      SearchQuery |-> <<>>,
      SearchResults |-> <<>>,
      CurrentMatch |-> 0,
      CommandBuffer |-> <<>>,
      LastSearch |-> <<>> ]

\* s[:len(s)-1]
DropLast(s) == SubSeq(s, 1, Len(s) - 1)

\* A bug a maintainer could introduce: the length test of the default case is
\* dropped, so that the name of any key is added to the query.
handleSearchModeAnyKey(s, key) ==
    CASE key = "enter" ->
            [s EXCEPT !.LastSearch = s.SearchQuery, !.Mode = NormalMode]
      [] key = "esc" ->
            [s EXCEPT !.SearchQuery = <<>>, !.SearchResults = <<>>,
                      !.CurrentMatch = 0, !.Mode = NormalMode]
      [] key = "backspace" ->
            IF Len(s.SearchQuery) > 0
            THEN [s EXCEPT !.SearchQuery = DropLast(s.SearchQuery)]
            ELSE s
      [] OTHER -> [s EXCEPT !.SearchQuery = Append(s.SearchQuery, key)]

\* A bug a maintainer could introduce: Enter leaves Search mode without
\* committing the query.
handleSearchModeNoCommit(s, key) ==
    CASE key = "enter" -> [s EXCEPT !.Mode = NormalMode]
      [] key = "esc" ->
            [s EXCEPT !.SearchQuery = <<>>, !.SearchResults = <<>>,
                      !.CurrentMatch = 0, !.Mode = NormalMode]
      [] key = "backspace" ->
            IF Len(s.SearchQuery) > 0
            THEN [s EXCEPT !.SearchQuery = DropLast(s.SearchQuery)]
            ELSE s
      [] OTHER ->
            IF Len(key) = 1
            THEN [s EXCEPT !.SearchQuery = Append(s.SearchQuery, key)]
            ELSE s

\* State.handleSearchMode; key is msg.String(). Always reports the key handled.
handleSearchMode(s, key) ==
    CASE key = "enter" ->
            [s EXCEPT !.LastSearch = s.SearchQuery, !.Mode = NormalMode]
      [] key = "esc" ->
            [s EXCEPT !.SearchQuery = <<>>, !.SearchResults = <<>>,
                      !.CurrentMatch = 0, !.Mode = NormalMode]
      [] key = "backspace" ->
            IF Len(s.SearchQuery) > 0
            THEN [s EXCEPT !.SearchQuery = DropLast(s.SearchQuery)]
            ELSE s
      [] OTHER ->
            IF Len(key) = 1
            THEN [s EXCEPT !.SearchQuery = Append(s.SearchQuery, key)]
            ELSE s

\* State.handleCommandMode
handleCommandMode(s, key) ==
    CASE key = "enter" -> [s EXCEPT !.Mode = NormalMode]
      [] key = "esc" -> [s EXCEPT !.CommandBuffer = <<>>, !.Mode = NormalMode]
      [] key = "backspace" ->
            IF Len(s.CommandBuffer) > 0
            THEN [s EXCEPT !.CommandBuffer = DropLast(s.CommandBuffer)]
            ELSE s
      [] OTHER ->
            IF Len(key) = 1
            THEN [s EXCEPT !.CommandBuffer = Append(s.CommandBuffer, key)]
            ELSE s

\* State.HandleKey: the new state and whether the key was handled.
HandleKey(s, key) ==
    CASE s.Mode = SearchMode -> [state |-> handleSearchMode(s, key), handled |-> TRUE]
      [] s.Mode = CommandMode -> [state |-> handleCommandMode(s, key), handled |-> TRUE]
      [] OTHER -> [state |-> s, handled |-> FALSE]

\* A bug a maintainer could introduce: the query of the search before is kept.
EnterSearchModeKeepQuery(s) ==
    [s EXCEPT !.Mode = SearchMode, !.SearchResults = <<>>, !.CurrentMatch = 0]

\* State.EnterSearchMode
EnterSearchMode(s) ==
    [s EXCEPT !.Mode = SearchMode, !.SearchQuery = <<>>,
              !.SearchResults = <<>>, !.CurrentMatch = 0]

\* State.EnterCommandMode
EnterCommandMode(s) ==
    [s EXCEPT !.Mode = CommandMode, !.CommandBuffer = <<>>]

\* The loop of State.SearchItems: the 0-based indices i, in increasing order, of the
\* items whose lower-cased text contains the lower-cased query.
RECURSIVE MatchIndices(_, _, _)
MatchIndices(items, query, i) ==
    IF i >= Len(items) THEN <<>>
    ELSE IF Contains(ToLower(items[i + 1]), query)
         THEN <<i>> \o MatchIndices(items, query, i + 1)
         ELSE MatchIndices(items, query, i + 1)

\* A bug a maintainer could introduce: the query is not lower-cased.
SearchItemsCaseSensitive(s, items) ==
    LET results == MatchIndices(items, s.SearchQuery, 0)
    IN  [s EXCEPT !.SearchResults = results,
                  !.CurrentMatch = IF Len(results) > 0 THEN 0 ELSE s.CurrentMatch]

\* State.SearchItems
SearchItems(s, items) ==
    LET query == ToLower(s.SearchQuery)
        results == MatchIndices(items, query, 0)
    IN  [s EXCEPT !.SearchResults = results,
                  !.CurrentMatch = IF Len(results) > 0 THEN 0 ELSE s.CurrentMatch]

\* A bug a maintainer could introduce: NextMatch stops at the last result.
NextMatchNoWrap(s) ==
    IF Len(s.SearchResults) = 0 THEN [state |-> s, idx |-> -1]
    ELSE LET cm == Min(s.CurrentMatch + 1, Len(s.SearchResults) - 1)
         IN  [state |-> [s EXCEPT !.CurrentMatch = cm], idx |-> s.SearchResults[cm + 1]]

\* State.NextMatch: the new state and the returned index (-1 without results).
NextMatch(s) ==
    IF Len(s.SearchResults) = 0 THEN [state |-> s, idx |-> -1]
    ELSE LET cm == (s.CurrentMatch + 1) % Len(s.SearchResults)
         IN  [state |-> [s EXCEPT !.CurrentMatch = cm], idx |-> s.SearchResults[cm + 1]]

\* State.PrevMatch
PrevMatch(s) ==
    IF Len(s.SearchResults) = 0 THEN [state |-> s, idx |-> -1]
    ELSE LET dec == s.CurrentMatch - 1
             cm == IF dec < 0 THEN Len(s.SearchResults) - 1 ELSE dec
         IN  [state |-> [s EXCEPT !.CurrentMatch = cm], idx |-> s.SearchResults[cm + 1]]

\* vim.ParseNavigation
ParseNavigation(key) ==
    CASE key \in {"k", "up"} -> "MoveUp"
      [] key \in {"j", "down"} -> "MoveDown"
      [] key = "g" -> "MoveTop"
      [] key \in {"G", "ctrl+g"} -> "MoveBottom"
      [] key = "ctrl+u" -> "MoveHalfPageUp"
      [] key = "ctrl+d" -> "MoveHalfPageDown"
      [] key \in {"ctrl+b", "pgup"} -> "MovePageUp"
      [] key \in {"ctrl+f", "pgdown"} -> "MovePageDown"
      [] key = "/" -> "EnterSearch"
      [] key = "n" -> "NextSearchResult"
      [] key = "N" -> "PrevSearchResult"
      [] key = ":" -> "EnterCommand"
      [] OTHER -> "NoAction"

\* strings.Fields on a line whose only white space is the space character.
RECURSIVE Fields(_)
Fields(line) ==
    IF Len(line) = 0 THEN <<>>
    ELSE IF Head(line) = " " THEN Fields(Tail(line))
    ELSE LET n == IF \E i \in 1..Len(line) : line[i] = " "
                  THEN (CHOOSE i \in 1..Len(line) :
                            line[i] = " " /\ \A j \in 1..(i - 1) : line[j] # " ") - 1
                  ELSE Len(line)
         IN  <<SubSeq(line, 1, n)>> \o Fields(SubSeq(line, n + 1, Len(line)))

\* vim.ParseCommand
ParseCommand(commandStr) ==
    LET parts == Fields(commandStr)
    IN  IF Len(parts) = 0 THEN [Name |-> <<>>, Args |-> <<>>]
        ELSE [Name |-> parts[1], Args |-> Tail(parts)]

\* The command names of vim.go, as character sequences.
CmdQuit == <<"q">>
CmdRefresh == <<"r">>
CmdHelp == <<"h", "e", "l", "p">>
CmdClearFilter == <<"c", "f">>
CmdSelectAll == <<"s", "a">>
CmdDeselectAll == <<"d", "a">>
CmdEC2 == <<"e", "c", "2">>
CmdS3 == <<"s", "3">>
CmdEKS == <<"e", "k", "s">>
CmdAccount == <<"a", "c", "c", "o", "u", "n", "t">>
CmdRegion == <<"r", "e", "g", "i", "o", "n">>

\* vim.AllCommands
AllCommands ==
    << <<"q">>, <<"q", "u", "i", "t">>, <<"q", "a">>,
       <<"r">>, <<"r", "e", "f", "r", "e", "s", "h">>,
       <<"h", "e", "l", "p">>, <<"h">>,
       <<"c", "f">>, <<"c", "l", "e", "a", "r", "f", "i", "l", "t", "e", "r">>,
       <<"s", "a">>, <<"s", "e", "l", "e", "c", "t", "a", "l", "l">>,
       <<"d", "a">>, <<"d", "e", "s", "e", "l", "e", "c", "t", "a", "l", "l">>,
       <<"e", "c", "2">>, <<"s", "3">>, <<"e", "k", "s">>,
       <<"a", "c", "c", "o", "u", "n", "t">>, <<"a", "c", "c">>,
       <<"r", "e", "g", "i", "o", "n">> >>

\* vim.GetCommandSuggestions
GetCommandSuggestions(prefix) ==
    IF prefix = <<>> THEN AllCommands
    ELSE LET Matches(cmd) == HasPrefix(cmd, prefix)
         IN  SelectSeq(AllCommands, Matches)

\* The inner loop of CompleteCommand: the longest common prefix of a and b.
CommonPrefix(a, b) ==
    LET n == Min(Len(a), Len(b))
        i == IF \E k \in 1..n : a[k] # b[k]
             THEN (CHOOSE k \in 1..n : a[k] # b[k] /\ \A j \in 1..(k - 1) : a[j] = b[j]) - 1
             ELSE n
    IN  SubSeq(a, 1, i)

RECURSIVE CommonPrefixAll(_, _)
CommonPrefixAll(common, rest) ==
    IF Len(rest) = 0 THEN common
    ELSE CommonPrefixAll(CommonPrefix(common, Head(rest)), Tail(rest))

\* A bug a maintainer could introduce: with several matches the first one is taken.
CompleteCommandFirst(prefix) ==
    LET suggestions == GetCommandSuggestions(prefix)
    IN  IF Len(suggestions) >= 1 THEN [text |-> suggestions[1], complete |-> TRUE]
        ELSE [text |-> prefix, complete |-> FALSE]

\* vim.CompleteCommand: the completed text and whether it is a complete command.
CompleteCommand(prefix) ==
    LET suggestions == GetCommandSuggestions(prefix)
    IN  IF Len(suggestions) = 1 THEN [text |-> suggestions[1], complete |-> TRUE]
        ELSE IF Len(suggestions) > 1
             THEN LET common == CommonPrefixAll(suggestions[1], Tail(suggestions))
                  IN  IF Len(common) > Len(prefix)
                      THEN [text |-> common, complete |-> FALSE]
                      ELSE [text |-> prefix, complete |-> FALSE]
             ELSE [text |-> prefix, complete |-> FALSE]

----------------------------------------------------------------------------
(* What the resource providers can return (the environment of the model)  *)

Instance(id, name) ==
    [ ID |-> id, Name |-> name, State |-> <<"u", "p">>, InstanceType |-> <<"t", "3">>,
      PublicIP |-> <<>>, PrivateIP |-> <<"1", "0">> ]

\* Four instances "ec2-1", "ec2-2", "s3-x", "ec2-3"; the third is named "J".
InstancesA ==
    << Instance(<<"e", "c", "2", "-", "1">>, <<>>),
       Instance(<<"e", "c", "2", "-", "2">>, <<>>),
       Instance(<<"s", "3", "-", "x">>, <<"J">>),
       Instance(<<"e", "c", "2", "-", "3">>, <<>>) >>

\* A later listing: two of them, in another order.
InstancesB ==
    << Instance(<<"s", "3", "-", "x">>, <<"J">>),
       Instance(<<"e", "c", "2", "-", "1">>, <<>>) >>

InstanceLists == {InstancesA, InstancesB}

Bucket(name) == [Name |-> name, Region |-> <<"e", "u">>]

BucketsA == << Bucket(<<"E", "C", "2">>), Bucket(<<"j">>) >>

BucketLists == {BucketsA}

S3Object(key, isFolder) == [Key |-> key, IsFolder |-> isFolder]

\* A folder "ec2/" and a file.
ObjectsA == << S3Object(<<"e", "c", "2", "/">>, TRUE), S3Object(<<"j">>, FALSE) >>

ObjectLists == {ObjectsA}

EKSCluster(name) ==
    [ Name |-> name, Version |-> <<"1">>, Status |-> <<"o", "k">>, Region |-> <<"e", "u">> ]

ClustersA == << EKSCluster(<<"j">>), EKSCluster(<<"e", "c", "2">>) >>

ClusterLists == {ClustersA}

\* config.LoadConfig: the ten regions, by their position in Config.Regions.
NumRegions == 10

----------------------------------------------------------------------------
(* main.go: the model struct and its helper methods                        *)

Screens ==
    { "authMethodScreen", "authProfileScreen", "ssoConfigScreen", "accountScreen",
      "regionScreen", "ec2Screen", "ec2DetailsScreen", "s3Screen", "s3BrowseScreen",
      "s3ObjectDetailsScreen", "eksScreen", "eksDetailsScreen", "helpScreen" }

DefaultPageSize == 20

\* initialModel, with an auth config for environment variables on disk: the program
\* starts on the EC2 screen, loading, and Init issues initAWSClient. previousScreen
\* is the zero value of screen. Fields that only feed the view (status message,
\* command suggestions, text inputs) are left out.
initialModel ==
    [ currentScreen |-> "ec2Screen",
      previousScreen |-> "authMethodScreen",
      height |-> 0,
      awsClient |-> FALSE,
      configRegion |-> 0,
      autoRefresh |-> FALSE,
      ec2Instances |-> <<>>,
      ec2FilteredInstances |-> <<>>,
      ec2SelectedIndex |-> 0,
      ec2InstanceDetails |-> <<>>,
      ec2SelectedInstances |-> {},
      s3Buckets |-> <<>>,
      s3FilteredBuckets |-> <<>>,
      s3SelectedIndex |-> 0,
      s3CurrentBucket |-> <<>>,
      s3CurrentPrefix |-> <<>>,
      s3Objects |-> <<>>,
      s3FilteredObjects |-> <<>>,
      s3ObjectSelectedIndex |-> 0,
      s3ObjectDetails |-> <<>>,
      s3IsTruncated |-> FALSE,
      s3ShowingInfo |-> FALSE,
      s3ConfirmDelete |-> FALSE,
      s3DeleteTarget |-> "",
      s3DeleteKey |-> <<>>,
      deleteConfirmInput |-> <<>>,
      ssmInstanceID |-> <<>>,
      s3EditBucket |-> <<>>,
      s3EditKey |-> <<>>,
      s3NeedRestore |-> FALSE,
      ec2NeedRestore |-> FALSE,
      s3PresignedURL |-> <<>>,
      eksClusters |-> <<>>,
      eksFilteredClusters |-> <<>>,
      eksSelectedIndex |-> 0,
      eksClusterDetails |-> <<>>,
      ssoAccounts |-> <<>>,
      ssoFilteredAccounts |-> <<>>,
      ssoSelectedIndex |-> 0,
      regionSelectedIndex |-> 0,
      loading |-> TRUE,
      err |-> FALSE,
      showingConfirm |-> FALSE,
      confirmAction |-> <<>>,
      confirmInstanceID |-> <<>>,
      vimState |-> NewState,
      pageSize |-> DefaultPageSize,
      viewportOffset |-> 0 ]

\* model.clearSearch
clearSearch(mm) ==
    [mm EXCEPT !.vimState.LastSearch = <<>>,
               !.vimState.SearchResults = <<>>,
               !.ec2FilteredInstances = <<>>,
               !.s3FilteredBuckets = <<>>,
               !.s3FilteredObjects = <<>>,
               !.ssoFilteredAccounts = <<>>,
               !.eksFilteredClusters = <<>>]

\* model.setSelectedIndex
setSelectedIndex(mm, index) ==
    CASE mm.currentScreen = "regionScreen" ->
            IF index >= 0 /\ index < NumRegions
            THEN [mm EXCEPT !.regionSelectedIndex = index] ELSE mm
      [] mm.currentScreen = "accountScreen" ->
            IF index >= 0 /\ index < Len(mm.ssoAccounts)
            THEN [mm EXCEPT !.ssoSelectedIndex = index] ELSE mm
      [] mm.currentScreen = "ec2Screen" ->
            IF index >= 0 /\ index < Len(mm.ec2Instances)
            THEN [mm EXCEPT !.ec2SelectedIndex = index] ELSE mm
      [] mm.currentScreen = "s3Screen" ->
            IF index >= 0 /\ index < Len(mm.s3Buckets)
            THEN [mm EXCEPT !.s3SelectedIndex = index] ELSE mm
      [] mm.currentScreen = "s3BrowseScreen" ->
            IF index >= 0 /\ index < Len(mm.s3Objects)
            THEN [mm EXCEPT !.s3ObjectSelectedIndex = index] ELSE mm
      [] mm.currentScreen = "eksScreen" ->
            IF index >= 0 /\ index < Len(mm.eksClusters)
            THEN [mm EXCEPT !.eksSelectedIndex = index] ELSE mm
      [] OTHER -> mm

\* handleDetailViewScroll's "large number" for MoveBottom.
DetailBottom == 10000

\* The minimum number of list rows and the lines around the list (ensureVisible).
MinViewport == 5
ChromeLines == 22

\* availableHeight of ensureVisible and getVisibleRange
AvailableHeight(height) ==
    IF height - ChromeLines < MinViewport THEN MinViewport ELSE height - ChromeLines

\* A bug a maintainer could introduce: the final clamp to maxOffset is forgotten.
ensureVisibleNoClamp(mm, selectedIndex, listLength) ==
    IF listLength = 0 THEN [mm EXCEPT !.viewportOffset = 0]
    ELSE LET availableHeight == AvailableHeight(mm.height)
             scrolled == IF selectedIndex < mm.viewportOffset THEN selectedIndex
                         ELSE IF selectedIndex >= mm.viewportOffset + availableHeight
                              THEN selectedIndex - availableHeight + 1
                              ELSE mm.viewportOffset
         IN  [mm EXCEPT !.viewportOffset = IF scrolled < 0 THEN 0 ELSE scrolled]

\* A bug a maintainer could introduce: the viewport follows the selection one
\* row at a time.
ensureVisibleByOne(mm, selectedIndex, listLength) ==
    IF listLength = 0 THEN [mm EXCEPT !.viewportOffset = 0]
    ELSE LET availableHeight == AvailableHeight(mm.height)
             scrolled == IF selectedIndex < mm.viewportOffset
                         THEN mm.viewportOffset - 1
                         ELSE IF selectedIndex >= mm.viewportOffset + availableHeight
                              THEN mm.viewportOffset + 1
                              ELSE mm.viewportOffset
             maxOffset == IF listLength - availableHeight < 0 THEN 0
                          ELSE listLength - availableHeight
             clamped == IF scrolled > maxOffset THEN maxOffset ELSE scrolled
         IN  [mm EXCEPT !.viewportOffset = IF clamped < 0 THEN 0 ELSE clamped]

\* model.ensureVisible
ensureVisible(mm, selectedIndex, listLength) ==
    IF listLength = 0 THEN [mm EXCEPT !.viewportOffset = 0]
    ELSE LET availableHeight == AvailableHeight(mm.height)
             scrolled == IF selectedIndex < mm.viewportOffset THEN selectedIndex
                         ELSE IF selectedIndex >= mm.viewportOffset + availableHeight
                              THEN selectedIndex - availableHeight + 1
                              ELSE mm.viewportOffset
             maxOffset == IF listLength - availableHeight < 0 THEN 0
                          ELSE listLength - availableHeight
             clamped == IF scrolled > maxOffset THEN maxOffset ELSE scrolled
         IN  [mm EXCEPT !.viewportOffset = IF clamped < 0 THEN 0 ELSE clamped]

\* model.getVisibleRange: <<start, end>>, the rows start .. end-1 are drawn.
getVisibleRange(mm, listLength) ==
    IF listLength = 0 THEN <<0, 0>>
    ELSE LET availableHeight == AvailableHeight(mm.height)
             start == mm.viewportOffset
             end == mm.viewportOffset + availableHeight
         IN  <<start, IF end > listLength THEN listLength ELSE end>>

\* a + " " + b
Sp(a, b) == a \o <<" ">> \o b

\* The searchable text of each kind of row, as applyVimSearch builds it.
InstanceSearchText(inst) ==
    ToLower(Sp(Sp(Sp(Sp(Sp(inst.ID, inst.Name), inst.State), inst.InstanceType),
                  inst.PublicIP), inst.PrivateIP))

BucketSearchText(bucket) == ToLower(Sp(bucket.Name, bucket.Region))

ObjectSearchText(obj) == ToLower(obj.Key)

ClusterSearchText(cluster) ==
    ToLower(Sp(Sp(Sp(cluster.Name, cluster.Version), cluster.Status), cluster.Region))

AccountSearchText(acc) ==
    ToLower(Sp(Sp(Sp(acc.AccountID, acc.AccountName), acc.RoleName), acc.EmailAddress))

\* for _, idx := range SearchResults { filtered = append(filtered, list[idx]) }
Pick(list, results) == [j \in 1..Len(results) |-> list[results[j] + 1]]

SearchScreens == {"accountScreen", "ec2Screen", "s3Screen", "s3BrowseScreen", "eksScreen"}

\* model.applyVimSearch
applyVimSearch(mm) ==
    IF mm.currentScreen \notin SearchScreens THEN mm
    ELSE
    LET searchItems ==
            CASE mm.currentScreen = "accountScreen" ->
                    [i \in 1..Len(mm.ssoAccounts) |-> AccountSearchText(mm.ssoAccounts[i])]
              [] mm.currentScreen = "ec2Screen" ->
                    [i \in 1..Len(mm.ec2Instances) |-> InstanceSearchText(mm.ec2Instances[i])]
              [] mm.currentScreen = "s3Screen" ->
                    [i \in 1..Len(mm.s3Buckets) |-> BucketSearchText(mm.s3Buckets[i])]
              [] mm.currentScreen = "s3BrowseScreen" ->
                    [i \in 1..Len(mm.s3Objects) |-> ObjectSearchText(mm.s3Objects[i])]
              [] mm.currentScreen = "eksScreen" ->
                    [i \in 1..Len(mm.eksClusters) |-> ClusterSearchText(mm.eksClusters[i])]
        vs == SearchItems(mm.vimState, searchItems)
        results == vs.SearchResults
        searched == [mm EXCEPT !.vimState = vs]
        filtered ==
            CASE mm.currentScreen = "accountScreen" ->
                    [searched EXCEPT !.ssoFilteredAccounts = Pick(mm.ssoAccounts, results)]
              [] mm.currentScreen = "ec2Screen" ->
                    [searched EXCEPT !.ec2FilteredInstances = Pick(mm.ec2Instances, results)]
              [] mm.currentScreen = "s3Screen" ->
                    [searched EXCEPT !.s3FilteredBuckets = Pick(mm.s3Buckets, results)]
              [] mm.currentScreen = "s3BrowseScreen" ->
                    [searched EXCEPT !.s3FilteredObjects = Pick(mm.s3Objects, results)]
              [] mm.currentScreen = "eksScreen" ->
                    [searched EXCEPT !.eksFilteredClusters = Pick(mm.eksClusters, results)]
    IN  \* with results the selection is reset to the first row; without, Pick has
        \* left the filtered list empty
        IF Len(results) > 0 THEN setSelectedIndex(filtered, 0) ELSE filtered

DetailScreens == {"ec2DetailsScreen", "s3ObjectDetailsScreen", "eksDetailsScreen"}

\* model.handleDetailViewScroll
handleDetailViewScroll(mm, action) ==
    CASE action = "MoveUp" ->
            IF mm.viewportOffset > 0
            THEN [mm EXCEPT !.viewportOffset = mm.viewportOffset - 1] ELSE mm
      [] action = "MoveDown" -> [mm EXCEPT !.viewportOffset = mm.viewportOffset + 1]
      [] action = "MoveTop" -> [mm EXCEPT !.viewportOffset = 0]
      [] action = "MoveBottom" -> [mm EXCEPT !.viewportOffset = DetailBottom]
      [] action = "MoveHalfPageUp" ->
            [mm EXCEPT !.viewportOffset = Max(mm.viewportOffset - Div(mm.pageSize, 2), 0)]
      [] action = "MoveHalfPageDown" ->
            [mm EXCEPT !.viewportOffset = mm.viewportOffset + Div(mm.pageSize, 2)]
      [] action = "MovePageUp" ->
            [mm EXCEPT !.viewportOffset = Max(mm.viewportOffset - mm.pageSize, 0)]
      [] action = "MovePageDown" ->
            [mm EXCEPT !.viewportOffset = mm.viewportOffset + mm.pageSize]
      [] OTHER -> mm

\* The list handleVimNavigation moves in: the filtered list when it has rows, no
\* list at all ("return") when a search is active without results, else the
\* canonical list. The result is <<ok, listLength>>.
NavList(mm, filtered, canonical) ==
    IF Len(filtered) > 0 THEN <<TRUE, Len(filtered)>>
    ELSE IF mm.vimState.LastSearch # <<>> THEN <<FALSE, 0>>
    ELSE <<TRUE, Len(canonical)>>

\* model.handleVimNavigation
handleVimNavigation(mm, action) ==
    IF mm.currentScreen \in DetailScreens THEN handleDetailViewScroll(mm, action)
    ELSE
    LET sc == mm.currentScreen
        nav ==
            CASE sc = "regionScreen" -> <<TRUE, NumRegions>>
              [] sc = "accountScreen" -> NavList(mm, mm.ssoFilteredAccounts, mm.ssoAccounts)
              [] sc = "ec2Screen" -> NavList(mm, mm.ec2FilteredInstances, mm.ec2Instances)
              [] sc = "s3Screen" -> NavList(mm, mm.s3FilteredBuckets, mm.s3Buckets)
              [] sc = "s3BrowseScreen" -> NavList(mm, mm.s3FilteredObjects, mm.s3Objects)
              [] sc = "eksScreen" -> NavList(mm, mm.eksFilteredClusters, mm.eksClusters)
              [] OTHER -> <<FALSE, 0>>
        currentIndex ==
            CASE sc = "regionScreen" -> mm.regionSelectedIndex
              [] sc = "accountScreen" -> mm.ssoSelectedIndex
              [] sc = "ec2Screen" -> mm.ec2SelectedIndex
              [] sc = "s3Screen" -> mm.s3SelectedIndex
              [] sc = "s3BrowseScreen" -> mm.s3ObjectSelectedIndex
              [] sc = "eksScreen" -> mm.eksSelectedIndex
              [] OTHER -> 0
        listLength == nav[2]
    IN  IF ~nav[1] \/ listLength = 0 THEN mm
        ELSE LET newIndex == CalculateNewIndex(action, currentIndex, listLength, mm.pageSize)
             IN  ensureVisible(setSelectedIndex(mm, newIndex), newIndex, listLength)


----------------------------------------------------------------------------
(* tea.Cmd's: a task is the command's name, the awsClient of the model     *)
(* value it was bound to (the receiver is a copy), and its arguments.      *)

Task(name, mm, args) == [type |-> name, client |-> mm.awsClient, arg |-> args]

initAWSClient(mm) == Task("initAWSClient", mm, <<>>)
loadEC2Instances(mm) == Task("loadEC2Instances", mm, <<>>)
loadS3Buckets(mm) == Task("loadS3Buckets", mm, <<>>)
loadEKSClusters(mm) == Task("loadEKSClusters", mm, <<>>)
loadEKSClusterDetails(mm, clusterName) == Task("loadEKSClusterDetails", mm, <<clusterName>>)
loadS3Objects(mm, bucket, prefix) == Task("loadS3Objects", mm, <<bucket, prefix>>)
loadS3ObjectDetails(mm, bucket, key) == Task("loadS3ObjectDetails", mm, <<bucket, key>>)
loadEC2InstanceDetails(mm, instanceID) == Task("loadEC2InstanceDetails", mm, <<instanceID>>)
deleteS3Object(mm, bucket, key) == Task("deleteS3Object", mm, <<bucket, key>>)
deleteS3Bucket(mm, bucket) == Task("deleteS3Bucket", mm, <<bucket>>)
performInstanceAction(mm, action, instanceID) ==
    Task("performInstanceAction", mm, <<action, instanceID>>)

\* What one Update call returns: the new model, the commands issued, tea.Quit or not.
Ret(mm, cmds) == [m |-> mm, cmds |-> cmds, quit |-> FALSE]

Quit(mm) == [m |-> mm, cmds |-> {}, quit |-> TRUE]

Terminate == <<"t", "e", "r", "m", "i", "n", "a", "t", "e">>

\* model.executeVimCommand
executeVimCommand(mm, commandStr) ==
    LET name == ParseCommand(commandStr).Name
        sc == mm.currentScreen
    IN  CASE name \in {CmdQuit, <<"q", "u", "i", "t">>} ->
                IF sc = "ec2DetailsScreen"
                THEN Ret([mm EXCEPT !.currentScreen = "ec2Screen",
                                    !.ec2InstanceDetails = <<>>], {})
                ELSE IF sc = "s3BrowseScreen"
                THEN Ret([mm EXCEPT !.currentScreen = "s3Screen", !.s3Objects = <<>>,
                                    !.s3CurrentBucket = <<>>, !.s3CurrentPrefix = <<>>], {})
                ELSE IF sc = "s3ObjectDetailsScreen"
                THEN Ret([mm EXCEPT !.currentScreen = "s3BrowseScreen",
                                    !.s3ObjectDetails = <<>>], {})
                ELSE Quit(mm)
          [] name \in {CmdRefresh, <<"r", "e", "f", "r", "e", "s", "h">>} ->
                LET m1 == [mm EXCEPT !.loading = TRUE]
                IN  IF sc = "ec2Screen" THEN Ret(m1, {loadEC2Instances(m1)})
                    ELSE IF sc = "s3Screen" THEN Ret(m1, {loadS3Buckets(m1)})
                    ELSE IF sc = "s3BrowseScreen"
                    THEN Ret(m1, {loadS3Objects(m1, m1.s3CurrentBucket, m1.s3CurrentPrefix)})
                    ELSE Ret(m1, {})
          [] name = CmdSelectAll ->
                IF sc = "ec2Screen"
                THEN Ret([mm EXCEPT !.ec2SelectedInstances =
                              mm.ec2SelectedInstances \cup
                              {mm.ec2Instances[i].ID : i \in 1..Len(mm.ec2Instances)}], {})
                ELSE Ret(mm, {})
          [] name = CmdDeselectAll ->
                IF sc = "ec2Screen"
                THEN Ret([mm EXCEPT !.ec2SelectedInstances = {}], {})
                ELSE Ret(mm, {})
          [] name \in {CmdClearFilter, <<"c", "l", "e", "a", "r", "f", "i", "l", "t", "e", "r">>} ->
                Ret([mm EXCEPT !.vimState.LastSearch = <<>>,
                               !.vimState.SearchResults = <<>>,
                               !.ec2FilteredInstances = <<>>,
                               !.s3FilteredBuckets = <<>>,
                               !.s3FilteredObjects = <<>>], {})
          [] name \in {CmdHelp, <<"h">>, <<"?">>} ->
                Ret([mm EXCEPT !.previousScreen = sc, !.currentScreen = "helpScreen"], {})
          [] name = CmdEC2 ->
                LET m1 == [clearSearch(mm) EXCEPT !.currentScreen = "ec2Screen",
                                                  !.viewportOffset = 0]
                IN  IF Len(m1.ec2Instances) = 0
                    THEN LET m2 == [m1 EXCEPT !.loading = TRUE]
                         IN  Ret(m2, {loadEC2Instances(m2)})
                    ELSE Ret(m1, {})
          [] name = CmdS3 ->
                LET m1 == [clearSearch(mm) EXCEPT !.currentScreen = "s3Screen",
                                                  !.viewportOffset = 0]
                IN  IF Len(m1.s3Buckets) = 0
                    THEN LET m2 == [m1 EXCEPT !.loading = TRUE]
                         IN  Ret(m2, {loadS3Buckets(m2)})
                    ELSE Ret(m1, {})
          [] name = CmdEKS ->
                LET m1 == [clearSearch(mm) EXCEPT !.currentScreen = "eksScreen",
                                                  !.viewportOffset = 0]
                IN  IF Len(m1.eksClusters) = 0
                    THEN LET m2 == [m1 EXCEPT !.loading = TRUE]
                         IN  Ret(m2, {loadEKSClusters(m2)})
                    ELSE Ret(m1, {})
          [] name \in {CmdAccount, <<"a", "c", "c">>} ->
                \* the auth method is not SSO: only a status message
                Ret(mm, {})
          [] name = CmdRegion ->
                Ret([mm EXCEPT !.regionSelectedIndex = mm.configRegion,
                               !.previousScreen = sc,
                               !.currentScreen = "regionScreen",
                               !.viewportOffset = 0], {})
          [] OTHER -> Ret(mm, {})


----------------------------------------------------------------------------
(* tea.Msg's, and model.Update                                              *)

Msg(type, key, err, data) == [type |-> type, key |-> key, err |-> err, data |-> data]

KeyMsg(key) == Msg("KeyMsg", key, FALSE, <<>>)

\* The confirmation dialog of an EC2 action (Update, "if m.showingConfirm"): it
\* takes every message, whatever its type.
UpdateConfirm(mm, msg) ==
    IF msg.type # "KeyMsg" THEN Ret(mm, {})
    ELSE CASE msg.key \in {"y", "Y"} ->
                LET m1 == [mm EXCEPT !.loading = TRUE]
                IN  IF m1.ec2SelectedInstances # {} /\ m1.currentScreen = "ec2Screen"
                    THEN Ret(m1, {Task("performBulkAction", m1, <<m1.confirmAction>>)})
                    ELSE Ret(m1, {performInstanceAction(m1, m1.confirmAction,
                                                        m1.confirmInstanceID)})
           [] msg.key \in {"n", "N", "esc"} ->
                Ret([mm EXCEPT !.showingConfirm = FALSE, !.confirmAction = <<>>,
                               !.confirmInstanceID = <<>>], {})
           [] OTHER -> Ret(mm, {})

\* textinput.Model.Update of the focused input of the delete confirmation: a
\* character is appended up to the limit, Backspace deletes the last one, and
\* nothing else changes the value.
CharLimit == 256

TextInputUpdate(value, msg) ==
    IF msg.type # "KeyMsg" THEN value
    ELSE IF msg.key = "backspace"
    THEN (IF value = <<>> THEN value ELSE SubSeq(value, 1, Len(value) - 1))
    ELSE IF Len(msg.key) = 1 /\ Len(value) < CharLimit THEN Append(value, msg.key)
    ELSE value

\* What Enter does in the delete confirmation; with `matches` false, and on
\* Escape, the delete is cancelled.
S3ConfirmEnter(mm, matches) ==
    IF matches
    THEN LET m1 == [mm EXCEPT !.loading = TRUE, !.s3ConfirmDelete = FALSE,
                              !.deleteConfirmInput = <<>>]
         IN  IF m1.s3DeleteTarget = "object"
             THEN Ret(m1, {deleteS3Object(m1, m1.s3CurrentBucket, m1.s3DeleteKey)})
             ELSE IF m1.s3DeleteTarget = "bucket"
             THEN Ret(m1, {deleteS3Bucket(m1, m1.s3DeleteKey)})
             ELSE Ret(m1, {})
    ELSE Ret([mm EXCEPT !.s3ConfirmDelete = FALSE, !.s3DeleteTarget = "",
                        !.s3DeleteKey = <<>>, !.deleteConfirmInput = <<>>], {})

\* A bug a maintainer could introduce: Enter deletes whatever was typed.
UpdateS3ConfirmNoCheck(mm, msg) ==
    IF msg.type = "KeyMsg" /\ msg.key = "enter" THEN S3ConfirmEnter(mm, TRUE)
    ELSE IF msg.type = "KeyMsg" /\ msg.key = "esc" THEN S3ConfirmEnter(mm, FALSE)
    ELSE Ret([mm EXCEPT !.deleteConfirmInput = TextInputUpdate(mm.deleteConfirmInput, msg)], {})

\* Update, "Handle S3 delete confirmation dialog"
UpdateS3Confirm(mm, msg) ==
    IF msg.type = "KeyMsg" /\ msg.key = "enter"
    THEN S3ConfirmEnter(mm, mm.deleteConfirmInput = mm.s3DeleteKey)
    ELSE IF msg.type = "KeyMsg" /\ msg.key = "esc" THEN S3ConfirmEnter(mm, FALSE)
    ELSE Ret([mm EXCEPT !.deleteConfirmInput = TextInputUpdate(mm.deleteConfirmInput, msg)], {})

\* Search and Command mode (Update, "Handle VIM modes"): every message that is not
\* a key is dropped; a key goes to vim.State and to nothing else.
UpdateVimMode(mm, msg) ==
    IF msg.type # "KeyMsg" THEN Ret(mm, {})
    ELSE IF mm.vimState.Mode = CommandMode /\ msg.key = "tab"
    THEN Ret([mm EXCEPT !.vimState.CommandBuffer =
                            CompleteCommand(mm.vimState.CommandBuffer).text], {})
    ELSE
    LET m1 == [mm EXCEPT !.vimState = HandleKey(mm.vimState, msg.key).state]
        \* instant search on every key press in search mode
        m2 == IF m1.vimState.Mode = SearchMode
              THEN IF m1.vimState.SearchQuery # <<>>
                   THEN applyVimSearch(
                            [m1 EXCEPT !.vimState.LastSearch = m1.vimState.SearchQuery])
                   ELSE [m1 EXCEPT !.vimState.LastSearch = <<>>,
                                   !.vimState.SearchResults = <<>>,
                                   !.ec2FilteredInstances = <<>>,
                                   !.s3FilteredBuckets = <<>>,
                                   !.s3FilteredObjects = <<>>]
              ELSE m1
        \* search mode was just completed
        m3 == IF m2.vimState.Mode = NormalMode /\ m2.vimState.LastSearch # <<>>
              THEN applyVimSearch(m2) ELSE m2
    IN  \* command mode was just completed
        IF m3.vimState.Mode = NormalMode /\ m3.vimState.CommandBuffer # <<>>
        THEN LET r == executeVimCommand(m3, m3.vimState.CommandBuffer)
             IN  [r EXCEPT !.m.vimState.CommandBuffer = <<>>]
        ELSE Ret(m3, {})

\* strings.LastIndex(s, "/"), 0-based, -1 when there is none.
LastSlash(str) ==
    IF \E i \in 1..Len(str) : str[i] = "/"
    THEN (CHOOSE i \in 1..Len(str) :
              str[i] = "/" /\ \A j \in (i + 1)..Len(str) : str[j] # "/") - 1
    ELSE -1

\* The parent of an S3 prefix (Update, key "esc" on the S3 browser).
ParentPrefix(prefix) ==
    LET trimmed == IF Len(prefix) > 0 /\ prefix[Len(prefix)] = "/"
                   THEN DropLast(prefix) ELSE prefix
        lastSlash == LastSlash(trimmed)
    IN  IF lastSlash >= 0 THEN SubSeq(trimmed, 1, lastSlash + 1) ELSE <<>>

\* Update, keys "ctrl+c" and "q"
KeyQuit(mm) ==
    LET sc == mm.currentScreen
    IN  CASE sc = "helpScreen" ->
                Ret([mm EXCEPT !.currentScreen = mm.previousScreen, !.viewportOffset = 0], {})
          [] sc = "ec2DetailsScreen" ->
                Ret([mm EXCEPT !.currentScreen = "ec2Screen", !.ec2InstanceDetails = <<>>,
                               !.viewportOffset = 0], {})
          [] sc = "s3BrowseScreen" ->
                Ret([mm EXCEPT !.currentScreen = "s3Screen", !.s3Objects = <<>>,
                               !.s3CurrentBucket = <<>>, !.s3CurrentPrefix = <<>>,
                               !.viewportOffset = 0], {})
          [] sc = "s3ObjectDetailsScreen" ->
                Ret([mm EXCEPT !.currentScreen = "s3BrowseScreen", !.s3ObjectDetails = <<>>,
                               !.viewportOffset = 0], {})
          [] OTHER -> Quit(mm)

\* Update, key "esc"
KeyEsc(mm) ==
    LET sc == mm.currentScreen
    IN  IF sc \in {"helpScreen", "regionScreen"}
        THEN Ret([mm EXCEPT !.currentScreen = mm.previousScreen, !.viewportOffset = 0], {})
        ELSE IF mm.s3ShowingInfo
        THEN Ret([mm EXCEPT !.s3ShowingInfo = FALSE, !.s3PresignedURL = <<>>], {})
        ELSE IF mm.s3PresignedURL # <<>>
        THEN Ret([mm EXCEPT !.s3PresignedURL = <<>>], {})
        ELSE IF mm.vimState.LastSearch # <<>>
        THEN Ret([mm EXCEPT !.vimState.LastSearch = <<>>,
                            !.vimState.SearchResults = <<>>,
                            !.ec2FilteredInstances = <<>>,
                            !.s3FilteredBuckets = <<>>,
                            !.s3FilteredObjects = <<>>], {})
        ELSE CASE sc = "ec2DetailsScreen" ->
                    Ret([mm EXCEPT !.currentScreen = "ec2Screen",
                                   !.ec2InstanceDetails = <<>>], {})
               [] sc = "s3BrowseScreen" ->
                    IF mm.s3CurrentPrefix # <<>>
                    THEN LET m1 == [mm EXCEPT !.s3CurrentPrefix = ParentPrefix(mm.s3CurrentPrefix),
                                              !.loading = TRUE, !.viewportOffset = 0]
                         IN  Ret(m1, {loadS3Objects(m1, m1.s3CurrentBucket, m1.s3CurrentPrefix)})
                    ELSE Ret([mm EXCEPT !.currentScreen = "s3Screen", !.s3Objects = <<>>,
                                        !.s3CurrentBucket = <<>>, !.s3CurrentPrefix = <<>>], {})
               [] sc = "s3ObjectDetailsScreen" ->
                    Ret([mm EXCEPT !.currentScreen = "s3BrowseScreen",
                                   !.s3ObjectDetails = <<>>], {})
               [] sc = "eksDetailsScreen" ->
                    Ret([mm EXCEPT !.currentScreen = "eksScreen",
                                   !.eksClusterDetails = <<>>], {})
               [] OTHER -> Ret(mm, {})

\* instances := m.ec2Instances; if len(filtered) > 0 { instances = filtered }
Shown(filtered, canonical) == IF Len(filtered) > 0 THEN filtered ELSE canonical

\* Update, keys "enter" and "i"
KeyEnter(mm) ==
    LET sc == mm.currentScreen
    IN  CASE sc = "regionScreen" ->
                IF mm.regionSelectedIndex < NumRegions
                THEN LET m1 == [mm EXCEPT !.configRegion = mm.regionSelectedIndex,
                                          !.currentScreen = mm.previousScreen,
                                          !.viewportOffset = 0, !.loading = TRUE]
                     IN  Ret(m1, {initAWSClient(m1)})
                ELSE Ret(mm, {})
          [] sc = "ec2Screen" ->
                LET instances == Shown(mm.ec2FilteredInstances, mm.ec2Instances)
                IN  IF Len(instances) > 0 /\ mm.ec2SelectedIndex < Len(instances)
                    THEN LET m1 == [mm EXCEPT !.loading = TRUE, !.viewportOffset = 0]
                         IN  Ret(m1, {loadEC2InstanceDetails(
                                          m1, instances[mm.ec2SelectedIndex + 1].ID)})
                    ELSE Ret(mm, {})
          [] sc = "s3Screen" ->
                LET buckets == Shown(mm.s3FilteredBuckets, mm.s3Buckets)
                IN  IF Len(buckets) > 0 /\ mm.s3SelectedIndex < Len(buckets)
                    THEN LET m1 == [mm EXCEPT
                                      !.s3CurrentBucket = buckets[mm.s3SelectedIndex + 1].Name,
                                      !.s3CurrentPrefix = <<>>,
                                      !.vimState.LastSearch = <<>>,
                                      !.vimState.SearchResults = <<>>,
                                      !.s3FilteredBuckets = <<>>,
                                      !.loading = TRUE, !.viewportOffset = 0]
                         IN  Ret(m1, {loadS3Objects(m1, m1.s3CurrentBucket, m1.s3CurrentPrefix)})
                    ELSE Ret(mm, {})
          [] sc = "s3BrowseScreen" ->
                LET objects == Shown(mm.s3FilteredObjects, mm.s3Objects)
                IN  IF Len(objects) > 0 /\ mm.s3ObjectSelectedIndex < Len(objects)
                    THEN LET selectedObject == objects[mm.s3ObjectSelectedIndex + 1]
                         IN  IF selectedObject.IsFolder
                             THEN LET m1 == [mm EXCEPT
                                               !.s3CurrentPrefix = selectedObject.Key,
                                               !.vimState.LastSearch = <<>>,
                                               !.vimState.SearchResults = <<>>,
                                               !.s3FilteredObjects = <<>>,
                                               !.loading = TRUE, !.viewportOffset = 0]
                                  IN  Ret(m1, {loadS3Objects(m1, m1.s3CurrentBucket,
                                                             m1.s3CurrentPrefix)})
                             ELSE LET m1 == [mm EXCEPT !.loading = TRUE, !.viewportOffset = 0]
                                  IN  Ret(m1, {loadS3ObjectDetails(m1, m1.s3CurrentBucket,
                                                                   selectedObject.Key)})
                    ELSE Ret(mm, {})
          [] sc = "eksScreen" ->
                LET clusters == Shown(mm.eksFilteredClusters, mm.eksClusters)
                IN  IF Len(clusters) > 0 /\ mm.eksSelectedIndex < Len(clusters)
                    THEN LET m1 == [mm EXCEPT !.loading = TRUE, !.viewportOffset = 0]
                         IN  Ret(m1, {loadEKSClusterDetails(
                                          m1, clusters[mm.eksSelectedIndex + 1].Name)})
                    ELSE Ret(mm, {})
          [] OTHER -> Ret(mm, {})


\* Update, key "tab": cycle through the main screens
KeyTab(mm) ==
    LET m1 == clearSearch(mm)
    IN  CASE m1.currentScreen = "ec2Screen" -> Ret([m1 EXCEPT !.currentScreen = "s3Screen"], {})
          [] m1.currentScreen = "s3Screen" ->
                LET m2 == [m1 EXCEPT !.currentScreen = "eksScreen"]
                IN  IF Len(m2.eksClusters) = 0
                    THEN LET m3 == [m2 EXCEPT !.loading = TRUE]
                         IN  Ret(m3, {loadEKSClusters(m3)})
                    ELSE Ret(m2, {})
          [] m1.currentScreen = "eksScreen" -> Ret([m1 EXCEPT !.currentScreen = "ec2Screen"], {})
          [] OTHER -> Ret(m1, {})

\* Update, key "r": refresh the current view
KeyRefresh(mm) ==
    LET m1 == [mm EXCEPT !.loading = TRUE]
    IN  CASE mm.currentScreen = "ec2Screen" -> Ret(m1, {loadEC2Instances(m1)})
          [] mm.currentScreen = "s3Screen" -> Ret(m1, {loadS3Buckets(m1)})
          [] mm.currentScreen = "s3BrowseScreen" ->
                Ret(m1, {loadS3Objects(m1, m1.s3CurrentBucket, m1.s3CurrentPrefix)})
          [] mm.currentScreen = "eksScreen" -> Ret(m1, {loadEKSClusters(m1)})
          [] OTHER -> Ret(mm, {})

\* Update, key "D": delete the selected S3 object or bucket
KeyDelete(mm) ==
    IF mm.currentScreen = "s3BrowseScreen"
    THEN LET objects == Shown(mm.s3FilteredObjects, mm.s3Objects)
         IN  IF Len(objects) > 0 /\ mm.s3ObjectSelectedIndex < Len(objects)
                /\ ~objects[mm.s3ObjectSelectedIndex + 1].IsFolder
             THEN Ret([mm EXCEPT !.s3ConfirmDelete = TRUE, !.s3DeleteTarget = "object",
                                 !.s3DeleteKey = objects[mm.s3ObjectSelectedIndex + 1].Key,
                                 !.deleteConfirmInput = <<>>], {})
             ELSE Ret(mm, {})
    ELSE IF mm.currentScreen = "s3Screen"
    THEN LET buckets == Shown(mm.s3FilteredBuckets, mm.s3Buckets)
         IN  IF Len(buckets) > 0 /\ mm.s3SelectedIndex < Len(buckets)
             THEN Ret([mm EXCEPT !.s3ConfirmDelete = TRUE, !.s3DeleteTarget = "bucket",
                                 !.s3DeleteKey = buckets[mm.s3SelectedIndex + 1].Name,
                                 !.deleteConfirmInput = <<>>], {})
             ELSE Ret(mm, {})
    ELSE Ret(mm, {})

\* The value of ssmInstanceID that stands for k9s.
K9s == <<"k", "9", "s">>

\* Update, key "9": launch k9s for the selected EKS cluster
KeyK9s(mm) ==
    IF mm.currentScreen = "eksScreen"
    THEN LET clusters == Shown(mm.eksFilteredClusters, mm.eksClusters)
         IN  IF Len(clusters) > 0 /\ mm.eksSelectedIndex < Len(clusters)
             THEN Quit([mm EXCEPT !.ssmInstanceID = K9s])
             ELSE Ret(mm, {})
    ELSE IF mm.currentScreen = "eksDetailsScreen" /\ mm.eksClusterDetails # <<>>
    THEN Quit([mm EXCEPT !.ssmInstanceID = K9s])
    ELSE Ret(mm, {})

\* Update, key "e": edit the selected S3 object in $EDITOR
KeyEdit(mm) ==
    IF mm.currentScreen = "s3BrowseScreen"
    THEN LET objects == Shown(mm.s3FilteredObjects, mm.s3Objects)
         IN  IF Len(objects) > 0 /\ mm.s3ObjectSelectedIndex < Len(objects)
                /\ ~objects[mm.s3ObjectSelectedIndex + 1].IsFolder
             THEN Quit([mm EXCEPT !.s3EditBucket = mm.s3CurrentBucket,
                                  !.s3EditKey = objects[mm.s3ObjectSelectedIndex + 1].Key])
             ELSE Ret(mm, {})
    ELSE IF mm.currentScreen = "s3ObjectDetailsScreen" /\ mm.s3ObjectDetails # <<>>
    THEN Quit([mm EXCEPT !.s3EditBucket = mm.s3CurrentBucket,
                         !.s3EditKey = mm.s3ObjectDetails])
    ELSE Ret(mm, {})

\* Update, key " ": toggle the selection of the instance under the cursor
KeySpace(mm) ==
    IF mm.currentScreen = "ec2Screen"
    THEN LET instances == Shown(mm.ec2FilteredInstances, mm.ec2Instances)
         IN  IF Len(instances) > 0 /\ mm.ec2SelectedIndex < Len(instances)
             THEN LET instanceID == instances[mm.ec2SelectedIndex + 1].ID
                  IN  Ret([mm EXCEPT !.ec2SelectedInstances =
                                 IF instanceID \in mm.ec2SelectedInstances
                                 THEN mm.ec2SelectedInstances \ {instanceID}
                                 ELSE mm.ec2SelectedInstances \cup {instanceID}], {})
             ELSE Ret(mm, {})
    ELSE Ret(mm, {})

\* Update, key "x": clear all selections
KeyClearSelections(mm) ==
    IF mm.currentScreen = "ec2Screen" THEN Ret([mm EXCEPT !.ec2SelectedInstances = {}], {})
    ELSE Ret(mm, {})

\* Update, key "t": terminate (one instance, or the selected set)
KeyTerminate(mm) ==
    IF mm.currentScreen = "ec2Screen" /\ mm.ec2SelectedInstances # {}
    THEN Ret([mm EXCEPT !.showingConfirm = TRUE, !.confirmAction = Terminate,
                        !.confirmInstanceID = <<"i", "n", "s", "t", "a", "n", "c", "e", "s">>], {})
    ELSE LET instanceID ==
                 IF mm.currentScreen = "ec2Screen" /\ Len(mm.ec2Instances) > 0
                 THEN mm.ec2Instances[mm.ec2SelectedIndex + 1].ID
                 ELSE IF mm.currentScreen = "ec2DetailsScreen"
                 THEN mm.ec2InstanceDetails
                 ELSE <<>>
         IN  IF instanceID # <<>>
             THEN Ret([mm EXCEPT !.showingConfirm = TRUE, !.confirmAction = Terminate,
                                 !.confirmInstanceID = instanceID], {})
             ELSE Ret(mm, {})

\* tickCmd: a tickMsg after 30 seconds
tickCmd == [type |-> "tickCmd", client |-> TRUE, arg |-> <<>>]

\* Update, key "a": toggle auto-refresh
KeyAutoRefresh(mm) ==
    IF mm.currentScreen = "ec2Screen"
    THEN LET m1 == [mm EXCEPT !.autoRefresh = ~mm.autoRefresh]
         IN  IF m1.autoRefresh THEN Ret(m1, {tickCmd}) ELSE Ret(m1, {})
    ELSE Ret(mm, {})

Start == <<"s", "t", "a", "r", "t">>

Stop == <<"s", "t", "o", "p">>

Reboot == <<"r", "e", "b", "o", "o", "t">>

\* Update, keys "S" and "R": stop, reboot (one instance, or the selected set)
KeyStopReboot(mm, action) ==
    IF mm.currentScreen = "ec2Screen" /\ mm.ec2SelectedInstances # {}
    THEN Ret([mm EXCEPT !.showingConfirm = TRUE, !.confirmAction = action,
                        !.confirmInstanceID = <<"i", "n", "s", "t", "a", "n", "c", "e", "s">>], {})
    ELSE LET instanceID ==
                 IF mm.currentScreen = "ec2Screen" /\ Len(mm.ec2Instances) > 0
                 THEN mm.ec2Instances[mm.ec2SelectedIndex + 1].ID
                 ELSE IF mm.currentScreen = "ec2DetailsScreen"
                 THEN mm.ec2InstanceDetails
                 ELSE <<>>
         IN  IF instanceID # <<>>
             THEN Ret([mm EXCEPT !.showingConfirm = TRUE, !.confirmAction = action,
                                 !.confirmInstanceID = instanceID], {})
             ELSE Ret(mm, {})

\* Update, key "s": start (the selected set at once, one instance after the
\* confirmation)
KeyStart(mm) ==
    IF mm.currentScreen = "ec2Screen" /\ mm.ec2SelectedInstances # {}
    THEN LET m1 == [mm EXCEPT !.loading = TRUE]
         IN  Ret(m1, {Task("performBulkAction", m1, <<Start>>)})
    ELSE LET instanceID ==
                 IF mm.currentScreen = "ec2Screen" /\ Len(mm.ec2Instances) > 0
                 THEN mm.ec2Instances[mm.ec2SelectedIndex + 1].ID
                 ELSE IF mm.currentScreen = "ec2DetailsScreen"
                 THEN mm.ec2InstanceDetails
                 ELSE <<>>
         IN  IF instanceID # <<>>
             THEN Ret([mm EXCEPT !.showingConfirm = TRUE, !.confirmAction = Start,
                                 !.confirmInstanceID = instanceID], {})
             ELSE Ret(mm, {})

\* Update, keys "n" and "N": NextMatch / PrevMatch, then setSelectedIndex. (The S3
\* browser's next page under "n" needs a truncated listing.)
KeyMatch(mm, step) ==
    IF mm.vimState.LastSearch # <<>>
    THEN LET m1 == [mm EXCEPT !.vimState = step.state]
         IN  IF step.idx >= 0 THEN Ret(setSelectedIndex(m1, step.idx), {}) ELSE Ret(m1, {})
    ELSE Ret(mm, {})

NavigationKeys ==
    { "k", "up", "j", "down", "g", "G", "ctrl+g", "ctrl+u", "ctrl+d", "ctrl+b", "ctrl+f",
      "pgup", "pgdown" }

\* Update, "case tea.KeyMsg" of the main switch
UpdateKey(mm, key) ==
    CASE key \in {"ctrl+c", "q"} -> KeyQuit(mm)
      [] key = "esc" -> KeyEsc(mm)
      [] key \in NavigationKeys -> Ret(handleVimNavigation(mm, ParseNavigation(key)), {})
      [] key = "/" -> Ret([mm EXCEPT !.vimState = EnterSearchMode(mm.vimState)], {})
      [] key = "n" ->
            IF mm.vimState.LastSearch = <<>> /\ mm.currentScreen = "s3BrowseScreen"
               /\ mm.s3IsTruncated
            THEN LET m1 == [mm EXCEPT !.loading = TRUE]
                 IN  Ret(m1, {loadS3Objects(m1, m1.s3CurrentBucket, m1.s3CurrentPrefix)})
            ELSE KeyMatch(mm, NextMatch(mm.vimState))
      [] key = "N" -> KeyMatch(mm, PrevMatch(mm.vimState))
      [] key = ":" -> Ret([mm EXCEPT !.vimState = EnterCommandMode(mm.vimState)], {})
      [] key \in {"enter", "i"} -> KeyEnter(mm)
      [] key = "tab" -> KeyTab(mm)
      [] key = "r" -> KeyRefresh(mm)
      [] key = "t" -> KeyTerminate(mm)
      [] key = "a" -> KeyAutoRefresh(mm)
      [] key = "s" -> KeyStart(mm)
      [] key = "S" -> KeyStopReboot(mm, Stop)
      [] key = "R" -> KeyStopReboot(mm, Reboot)
      [] key = "D" -> KeyDelete(mm)
      [] key = " " -> KeySpace(mm)
      [] key = "9" -> KeyK9s(mm)
      [] key = "e" -> KeyEdit(mm)
      [] key = "x" -> KeyClearSelections(mm)
      \* "y" copies to the clipboard; its command returns a nil message
      [] OTHER -> Ret(mm, {})

\* Update, the main switch on the type of the message
UpdateMain(mm, msg) ==
    CASE msg.type = "KeyMsg" -> UpdateKey(mm, msg.key)
      [] msg.type = "awsClient" ->
            LET m1 == clearSearch([mm EXCEPT !.awsClient = TRUE, !.ec2Instances = <<>>,
                                             !.s3Buckets = <<>>, !.eksClusters = <<>>])
            IN  IF m1.autoRefresh THEN Ret(m1, {loadEC2Instances(m1), tickCmd})
                ELSE Ret(m1, {loadEC2Instances(m1)})
      [] msg.type = "tickMsg" ->
            IF mm.autoRefresh /\ mm.currentScreen = "ec2Screen"
            THEN Ret(mm, {loadEC2Instances(mm), tickCmd})
            ELSE Ret(mm, {tickCmd})
      [] msg.type = "instancesLoadedMsg" ->
            Ret(IF msg.err THEN [mm EXCEPT !.loading = FALSE, !.err = TRUE]
                ELSE [mm EXCEPT !.loading = FALSE, !.err = FALSE,
                                !.ec2Instances = msg.data, !.ec2SelectedIndex = 0], {})
      [] msg.type = "instanceDetailsLoadedMsg" ->
            \* the three commands issued here (status, metrics, SSM) fill fields of
            \* the details view only
            Ret(IF msg.err THEN [mm EXCEPT !.loading = FALSE, !.err = TRUE]
                ELSE [mm EXCEPT !.loading = FALSE, !.err = FALSE,
                                !.ec2InstanceDetails = msg.data,
                                !.currentScreen = "ec2DetailsScreen"], {})
      [] msg.type \in {"instanceActionCompletedMsg", "bulkActionCompletedMsg"} ->
            LET m1 == [mm EXCEPT !.loading = FALSE, !.showingConfirm = FALSE,
                                 !.ec2SelectedInstances =
                                     IF msg.type = "bulkActionCompletedMsg" THEN {}
                                     ELSE mm.ec2SelectedInstances]
            IN  Ret(m1, {loadEC2Instances(m1)})
      [] msg.type = "bucketsLoadedMsg" ->
            Ret(IF msg.err THEN [mm EXCEPT !.loading = FALSE, !.err = TRUE]
                ELSE [mm EXCEPT !.loading = FALSE, !.err = FALSE,
                                !.s3Buckets = msg.data, !.s3SelectedIndex = 0], {})
      [] msg.type = "eksClustersLoadedMsg" ->
            Ret(IF msg.err THEN [mm EXCEPT !.loading = FALSE, !.err = TRUE]
                ELSE [mm EXCEPT !.loading = FALSE, !.err = FALSE,
                                !.eksClusters = msg.data, !.eksSelectedIndex = 0], {})
      [] msg.type = "eksClusterDetailsLoadedMsg" ->
            Ret(IF msg.err THEN [mm EXCEPT !.loading = FALSE, !.err = TRUE]
                ELSE [mm EXCEPT !.loading = FALSE, !.err = FALSE,
                                !.eksClusterDetails = msg.data,
                                !.currentScreen = "eksDetailsScreen",
                                !.viewportOffset = 0], {})
      [] msg.type = "objectsLoadedMsg" ->
            Ret(IF msg.err THEN [mm EXCEPT !.loading = FALSE, !.err = TRUE]
                ELSE [mm EXCEPT !.loading = FALSE, !.err = FALSE,
                                !.s3Objects = msg.data, !.s3IsTruncated = FALSE,
                                !.s3ObjectSelectedIndex = 0,
                                !.currentScreen = "s3BrowseScreen"], {})
      [] msg.type = "objectDetailsLoadedMsg" ->
            Ret(IF msg.err THEN [mm EXCEPT !.loading = FALSE, !.err = TRUE]
                ELSE [mm EXCEPT !.loading = FALSE, !.err = FALSE,
                                !.s3ObjectDetails = msg.data,
                                !.currentScreen = "s3ObjectDetailsScreen"], {})
      [] msg.type = "s3ActionCompletedMsg" ->
            LET m1 == [mm EXCEPT !.loading = FALSE, !.s3ConfirmDelete = FALSE]
            IN  IF m1.s3DeleteTarget = "bucket" THEN Ret(m1, {loadS3Buckets(m1)})
                ELSE IF m1.s3DeleteTarget = "object"
                THEN Ret(m1, {loadS3Objects(m1, m1.s3CurrentBucket, m1.s3CurrentPrefix)})
                ELSE Ret(m1, {})
      [] msg.type = "launchSSMSessionMsg" -> Quit([mm EXCEPT !.ssmInstanceID = msg.data])
      [] msg.type = "WindowSizeMsg" -> Ret([mm EXCEPT !.height = msg.data], {})
      [] OTHER -> Ret(mm, {})

\* model.Update, from the S3 delete confirmation on. The screens and prompts
\* handled before it (choice of the auth method, profile and SSO input) are not
\* entered with the auth config of initialModel and the keys of this model; nor
\* is the legacy filter prompt.
Update(mm, msg) ==
    IF mm.s3ConfirmDelete THEN UpdateS3Confirm(mm, msg)
    ELSE IF mm.showingConfirm THEN UpdateConfirm(mm, msg)
    ELSE IF mm.vimState.Mode \in {SearchMode, CommandMode} THEN UpdateVimMode(mm, msg)
    ELSE UpdateMain(mm, msg)


----------------------------------------------------------------------------
(* The program: bubbletea delivers key presses and the messages of the     *)
(* commands in flight to Update, one at a time.                             *)

\* The users of the model. Each behaviour has one user, who draws the keys from a
\* repertoire: the keys pressed in Normal mode and the texts typed in Search and in
\* Command mode.
Searcher ==
    [ normal |-> {"j", "k", "g", "G", "ctrl+d", "/", "n", "N", "esc", "r"},
      search |-> { <<"e", "c", "2">>, <<"j">>, <<"q">>, <<"t">>, <<"r">> },
      command |-> {},
      confirm |-> {} ]

Commander ==
    [ normal |-> {":", "/", "j", "n", "esc"},
      search |-> { <<"j">> },
      command |-> { <<"q">>, <<"c", "f">>, <<"s", "3">>, <<"h">>, <<"x">> },
      confirm |-> {} ]

Browser ==
    [ normal |-> {"enter", "esc", "q", "tab", "t", "j", "k", "G"},
      search |-> {},
      command |-> {},
      confirm |-> {} ]

Switcher ==
    [ normal |-> {"tab", "/", "esc", "r", "j", "n"},
      search |-> { <<"j">> },
      command |-> {},
      confirm |-> {} ]

\* Deletes buckets and objects, and types "j", "jx" or "x" to confirm.
Deleter ==
    [ normal |-> {"tab", "r", "j", "enter", "D"},
      search |-> {},
      command |-> {},
      confirm |-> { <<"j", "x">>, <<"x">> } ]

\* Selects instances for a bulk action.
Selector ==
    [ normal |-> {" ", "j", "tab", "t", "x"},
      search |-> {},
      command |-> {},
      confirm |-> {} ]

Users == {Searcher, Commander, Browser, Switcher, Deleter, Selector}

Typable(buffer, words) ==
    { c \in {"e", "c", "2", "j", "q", "t", "r", "f", "s", "3", "h", "x"} :
        \E w \in words : HasPrefix(w, Append(buffer, c)) }

EditKeys == {"enter", "esc", "backspace", "tab", "ctrl+d"}

\* The keys the user presses in a state. A detail view is scrolled down only
\* while its offset is below MaxScroll, and up only from a small offset.
Keys(mm) ==
    IF mm.s3ConfirmDelete
    THEN {"enter", "esc", "backspace"} \cup Typable(mm.deleteConfirmInput, user.confirm)
    ELSE IF mm.showingConfirm THEN {"y", "n", "esc", "/", ":", "j"}
    ELSE IF mm.vimState.Mode = SearchMode
    THEN EditKeys \cup Typable(mm.vimState.SearchQuery, user.search)
    ELSE IF mm.vimState.Mode = CommandMode
    THEN EditKeys \cup Typable(mm.vimState.CommandBuffer, user.command)
    ELSE IF mm.currentScreen \in DetailScreens
    THEN (user.normal \ {"j", "k"})
         \cup (IF mm.viewportOffset < MaxScroll THEN user.normal \cap {"j"} ELSE {})
         \cup (IF mm.viewportOffset <= MaxScroll THEN user.normal \cap {"k"} ELSE {})
    ELSE user.normal

\* The messages a command can come back with. Creating the client and listing
\* the instances can fail; the other calls succeed here.
Loaded(type, data) == Msg(type, "", FALSE, data)

Failed(type) == Msg(type, "", TRUE, <<>>)

\* One of the calls of a command failed and the others succeeded: the message
\* has the error and the results of the others.
PartlyLoaded(type, data) == Msg(type, "", TRUE, data)

Outcomes(task) ==
    CASE task.type = "initAWSClient" ->
            {Loaded("awsClient", <<>>), Failed("instancesLoadedMsg")}
      [] task.type = "loadEC2Instances" ->
            {Loaded("instancesLoadedMsg", l) : l \in InstanceLists}
            \cup {Failed("instancesLoadedMsg")}
      [] task.type = "loadS3Buckets" ->
            {Loaded("bucketsLoadedMsg", l) : l \in BucketLists}
      [] task.type = "loadEKSClusters" ->
            {Loaded("eksClustersLoadedMsg", l) : l \in ClusterLists}
      [] task.type = "loadS3Objects" ->
            {Loaded("objectsLoadedMsg", l) : l \in ObjectLists}
      [] task.type = "loadEC2InstanceDetails" ->
            {Loaded("instanceDetailsLoadedMsg", task.arg[1])}
      [] task.type = "loadS3ObjectDetails" ->
            {Loaded("objectDetailsLoadedMsg", task.arg[2])}
      [] task.type = "loadEKSClusterDetails" ->
            {Loaded("eksClusterDetailsLoadedMsg", task.arg[1]),
             PartlyLoaded("eksClusterDetailsLoadedMsg", task.arg[1])}
      [] task.type = "performInstanceAction" ->
            {Loaded("instanceActionCompletedMsg", <<>>)}
      [] task.type \in {"deleteS3Object", "deleteS3Bucket"} ->
            {Loaded("s3ActionCompletedMsg", <<>>)}
      [] task.type = "performBulkAction" ->
            {Loaded("bulkActionCompletedMsg", <<>>)}
      [] task.type = "tickCmd" ->
            {Loaded("tickMsg", <<>>)}

Init ==
    /\ m = initialModel
    /\ inflight = SetToBag({initAWSClient(initialModel)})
    /\ running = TRUE
    /\ user \in Users
    /\ searchEntry = <<>>
    /\ call = [fn |-> "Update"]

\* Update has returned: the model, the commands now in flight, tea.Quit.
Step(r, rest) ==
    /\ BagCardinality(rest) + Cardinality(r.cmds) <= MaxInFlight
    /\ m' = r.m
    /\ inflight' = rest (+) SetToBag(r.cmds)
    /\ running' = ~r.quit

\* The user presses a key.
KeyPress ==
    /\ running
    /\ \E key \in Keys(m) :
          /\ Step(Update(m, KeyMsg(key)), inflight)
          /\ searchEntry' =
                IF m'.vimState.Mode # SearchMode THEN <<>>
                ELSE IF m.vimState.Mode = SearchMode THEN searchEntry
                ELSE m.vimState.LastSearch
    /\ UNCHANGED <<user, call>>

\* A command in flight finishes and its message is handled.
Deliver ==
    /\ running
    /\ \E task \in BagToSet(inflight) :
          /\ task.client \/ task.type = "initAWSClient"
          /\ \E msg \in Outcomes(task) :
                Step(Update(m, msg), inflight (-) SetToBag({task}))
    /\ UNCHANGED <<user, searchEntry, call>>

\* A command that was bound to a model without a client dereferences nil: the
\* program dies.
Panic ==
    /\ running
    /\ \E task \in BagToSet(inflight) :
          /\ ~task.client /\ task.type # "initAWSClient"
          /\ inflight' = inflight (-) SetToBag({task})
    /\ running' = FALSE
    /\ UNCHANGED <<m, user, searchEntry, call>>

Next == KeyPress \/ Deliver \/ Panic

Spec == Init /\ [][Next]_vars


----------------------------------------------------------------------------
(* Specifications of single functions: Init draws the inputs, one action   *)
(* per call. The variables of the application are held at their initial    *)
(* value.                                                                   *)

AppIdle ==
    /\ inflight = EmptyBag
    /\ running = TRUE
    /\ user = Browser
    /\ searchEntry = <<>>

\* --- vim.CalculateNewIndex ------------------------------------------------

InitNav ==
    /\ m = initialModel
    /\ AppIdle
    /\ call \in { [ fn |-> "CalculateNewIndex", action |-> a, currentIndex |-> c,
                    listLength |-> n, pageSize |-> p, done |-> FALSE, result |-> 0 ] :
                  a \in NavigationActions, n \in 0..MaxListLen,
                  c \in 0..MaxListLen, p \in 0..MaxPageSize }
    /\ call.currentIndex <= Max(call.listLength - 1, 0)

CalculateNewIndexCall ==
    /\ ~call.done
    /\ call' = [call EXCEPT
                  !.done = TRUE,
                  !.result = CalculateNewIndex(call.action, call.currentIndex,
                                               call.listLength, call.pageSize)]
    /\ UNCHANGED <<m, inflight, running, user, searchEntry>>

NextNav == CalculateNewIndexCall

SpecNav == InitNav /\ [][NextNav]_vars

\* --- model.ensureVisible, model.getVisibleRange ---------------------------

\* Terminal heights a tea.WindowSizeMsg can carry (0 before the first one).
Heights == 0..MaxHeight

\* Offsets a caller can find in m.viewportOffset: small ones, a scrolled detail
\* view's 10000, and negative ones.
Offsets == (-MinOffset..MaxOffset) \cup {DetailBottom}

InitView ==
    /\ \E h \in Heights, o \in Offsets :
          m = [initialModel EXCEPT !.height = h, !.viewportOffset = o]
    /\ AppIdle
    /\ call \in { [ fn |-> "ensureVisible", selectedIndex |-> c, listLength |-> n,
                    step |-> "start", range |-> <<0, 0>> ] :
                  n \in 0..MaxListLen, c \in 0..MaxListLen }
    /\ call.selectedIndex <= Max(call.listLength - 1, 0)

ensureVisibleCall ==
    /\ call.step = "start"
    /\ m' = ensureVisible(m, call.selectedIndex, call.listLength)
    /\ call' = [call EXCEPT !.step = "ensured"]
    /\ UNCHANGED <<inflight, running, user, searchEntry>>

getVisibleRangeCall ==
    /\ call.step = "ensured"
    /\ call' = [call EXCEPT !.step = "ranged",
                            !.range = getVisibleRange(m, call.listLength)]
    /\ UNCHANGED <<m, inflight, running, user, searchEntry>>

NextView == ensureVisibleCall \/ getVisibleRangeCall

SpecView == InitView /\ [][NextView]_vars

\* --- vim.State: SearchItems, NextMatch, PrevMatch --------------------------

\* The item texts of TestSearchItems, and one in capitals.
ItemWords ==
    { <<"e", "c", "2", "-", "i", "n", "s", "t", "a", "n", "c", "e", "-", "1">>,
      <<"e", "c", "2", "-", "i", "n", "s", "t", "a", "n", "c", "e", "-", "2">>,
      <<"s", "3", "-", "b", "u", "c", "k", "e", "t", "-", "t", "e", "s", "t">>,
      <<"e", "c", "2", "-", "i", "n", "s", "t", "a", "n", "c", "e", "-", "3">>,
      <<"E", "C", "2">> }

Queries ==
    { <<>>, <<"e", "c", "2">>, <<"E", "c", "2">>, <<"S", "3">>, <<"x">> }

RECURSIVE SeqsUpTo(_, _)
SeqsUpTo(S, n) ==
    IF n = 0 THEN {<<>>}
    ELSE LET shorter == SeqsUpTo(S, n - 1)
         IN  shorter \cup { Append(q, x) : q \in shorter, x \in S }

InitVim ==
    /\ m = initialModel
    /\ AppIdle
    /\ call \in { [ fn |-> "vim.State", items |-> its,
                    s |-> [NewState EXCEPT !.SearchQuery = q],
                    before |-> [NewState EXCEPT !.SearchQuery = q],
                    op |-> "NewState", idx |-> 0, searched |-> FALSE ] :
                  its \in SeqsUpTo(ItemWords, MaxItems), q \in Queries }

SearchItemsCall ==
    /\ call' = [call EXCEPT !.before = call.s, !.op = "SearchItems", !.idx = 0,
                            !.searched = TRUE,
                            !.s = SearchItems(call.s, call.items)]
    /\ UNCHANGED <<m, inflight, running, user, searchEntry>>

NextMatchCall ==
    /\ call' = [call EXCEPT !.before = call.s, !.op = "NextMatch",
                            !.idx = NextMatch(call.s).idx,
                            !.s = NextMatch(call.s).state]
    /\ UNCHANGED <<m, inflight, running, user, searchEntry>>

PrevMatchCall ==
    /\ call' = [call EXCEPT !.before = call.s, !.op = "PrevMatch",
                            !.idx = PrevMatch(call.s).idx,
                            !.s = PrevMatch(call.s).state]
    /\ UNCHANGED <<m, inflight, running, user, searchEntry>>

NextVim == SearchItemsCall \/ NextMatchCall \/ PrevMatchCall

SpecVim == InitVim /\ [][NextVim]_vars

----------------------------------------------------------------------------
(* Properties                                                               *)

\* C2: CalculateNewIndex never produces an out-of-bounds index: for listLength >= 1
\* and currentIndex in [0, listLength-1] the result is in [0, listLength-1], and
\* for listLength = 0 (currentIndex = 0) the result is 0 for every action.
C2_ResultInBounds ==
    call.done =>
        IF call.listLength >= 1
        THEN call.result \in 0..(call.listLength - 1)
        ELSE call.result = 0

\* C3: for listLength >= 1 and currentIndex in range, CalculateNewIndex equals the
\* clamped reference function, with no wraparound; every action that is not a
\* movement returns currentIndex.
C3_ClampedReference ==
    (call.done /\ call.listLength >= 1) =>
        LET cur == call.currentIndex
            len == call.listLength
            half == call.pageSize \div 2
        IN  call.result =
              CASE call.action = "MoveUp" -> Max(cur - 1, 0)
                [] call.action = "MoveDown" -> Min(cur + 1, len - 1)
                [] call.action = "MoveTop" -> 0
                [] call.action = "MoveBottom" -> len - 1
                [] call.action = "MoveHalfPageUp" -> Max(cur - half, 0)
                [] call.action = "MoveHalfPageDown" -> Min(cur + half, len - 1)
                [] call.action = "MovePageUp" -> Max(cur - call.pageSize, 0)
                [] call.action = "MovePageDown" -> Min(cur + call.pageSize, len - 1)
                [] OTHER -> cur

\* C3 witness: HalfPageDown from index 5 of a 10-item list with pageSize 20 gives 9.
C3_Witness ==
    /\ call.done
    /\ call.action = "MoveHalfPageDown"
    /\ call.currentIndex = 5
    /\ call.listLength = 10
    /\ call.pageSize = 20
    /\ call.result = 9

\* C4: after ensureVisible(selectedIndex, listLength), whatever the offset was
\* before and whatever the height: for listLength >= 1 the selected index lies in
\* the window [offset, offset + visibleHeight - 1] and 0 <= offset <=
\* max(0, listLength - visibleHeight), with visibleHeight = max(5, height - 22);
\* for listLength = 0 the offset is 0; and the range getVisibleRange returns
\* contains the selected index.
C4_SelectionVisible ==
    (call.step \in {"ensured", "ranged"}) =>
        LET visibleHeight == Max(5, m.height - 22)
            offset == m.viewportOffset
            sel == call.selectedIndex
            len == call.listLength
        IN  /\ len >= 1 =>
                /\ offset <= sel
                /\ sel <= offset + visibleHeight - 1
                /\ 0 <= offset
                /\ offset <= Max(0, len - visibleHeight)
            /\ len = 0 => offset = 0
            /\ (call.step = "ranged" /\ len >= 1) =>
                /\ call.range[1] <= sel
                /\ sel < call.range[2]
                /\ call.range[2] <= len

\* C4 witness: a list longer than the window whose offset was beyond the end before
\* the call; the window was pulled back and the last row is shown.
C4_Witness ==
    /\ call.step = "ranged"
    /\ call.listLength = 10
    /\ call.selectedIndex = 9
    /\ m.height = 0
    /\ m.viewportOffset = 5
    /\ call.range = <<5, 10>>

\* C5: after SearchItems, SearchResults is the strictly increasing sequence of
\* exactly the indices i whose item contains the query, compared without regard
\* to case; CurrentMatch is 0 whenever the result of the call is non-empty.
C5_ExactMatches ==
    call.searched =>
        LET R == call.s.SearchResults
            q == call.s.SearchQuery
            IsMatch(i) ==
                \E k \in 0..(Len(call.items[i + 1]) - Len(q)) :
                    \A d \in 1..Len(q) :
                        ToLowerChar(call.items[i + 1][k + d]) = ToLowerChar(q[d])
        IN  /\ \A j \in 1..Len(R) : R[j] \in 0..(Len(call.items) - 1) /\ IsMatch(R[j])
            /\ \A j \in 1..(Len(R) - 1) : R[j] < R[j + 1]
            /\ \A i \in 0..(Len(call.items) - 1) :
                  IsMatch(i) => \E j \in 1..Len(R) : R[j] = i
            /\ (call.op = "SearchItems" /\ Len(R) > 0) => call.s.CurrentMatch = 0

\* C5 witness: the items of TestSearchItems searched for "Ec2" give [0, 1, 3].
C5_Witness ==
    /\ call.op = "SearchItems"
    /\ call.items =
         << <<"e", "c", "2", "-", "i", "n", "s", "t", "a", "n", "c", "e", "-", "1">>,
            <<"e", "c", "2", "-", "i", "n", "s", "t", "a", "n", "c", "e", "-", "2">>,
            <<"s", "3", "-", "b", "u", "c", "k", "e", "t", "-", "t", "e", "s", "t">>,
            <<"e", "c", "2", "-", "i", "n", "s", "t", "a", "n", "c", "e", "-", "3">> >>
    /\ call.s.SearchQuery = <<"E", "c", "2">>
    /\ call.s.SearchResults = <<0, 1, 3>>
    /\ call.s.CurrentMatch = 0

RECURSIVE NextMatchTimes(_, _)
NextMatchTimes(s, n) ==
    IF n = 0 THEN s ELSE NextMatchTimes(NextMatch(s).state, n - 1)

\* C7: with k >= 1 results NextMatch sets CurrentMatch to (CurrentMatch + 1) mod k
\* and PrevMatch to (CurrentMatch - 1) mod k, each returning
\* SearchResults[CurrentMatch]; PrevMatch after NextMatch restores CurrentMatch,
\* k NextMatch calls return to the start, and 0 <= CurrentMatch < k is kept;
\* without results both return -1 and leave CurrentMatch unchanged.
C7_MatchCycle ==
    LET k == Len(call.s.SearchResults)
        cm == call.s.CurrentMatch
        was == call.before.CurrentMatch
    IN  /\ (k >= 1 /\ call.op # "NewState") => (0 <= cm /\ cm < k)
        /\ (k >= 1 /\ call.op = "NextMatch") =>
              (cm = (was + 1) % k /\ call.idx = call.s.SearchResults[cm + 1])
        /\ (k >= 1 /\ call.op = "PrevMatch") =>
              (cm = (was - 1 + k) % k /\ call.idx = call.s.SearchResults[cm + 1])
        /\ (k >= 1 /\ call.op # "NewState") =>
              /\ PrevMatch(NextMatch(call.s).state).state.CurrentMatch = cm
              /\ NextMatchTimes(call.s, k).CurrentMatch = cm
        /\ (k = 0 /\ call.op \in {"NextMatch", "PrevMatch"}) =>
              (call.idx = -1 /\ cm = was /\ call.s = call.before)

\* C7 witness: NextMatch has wrapped from the last of three results to the first.
C7_Witness ==
    /\ call.op = "NextMatch"
    /\ call.s.SearchResults = <<0, 1, 3>>
    /\ call.before.CurrentMatch = 2
    /\ call.s.CurrentMatch = 0
    /\ call.idx = 0

\* --- the application ---------------------------------------------------------

\* The keys of Normal mode whose case of Update is modelled (UpdateKey).
ModelledKeys ==
    NavigationKeys
    \cup { "/", ":", "n", "N", "enter", "i", "esc", "tab", "ctrl+c", "q", "r", "t", "y", "D",
           " ", "x", "9", "e", "s", "S", "R" }

\* The keys the properties below try in a state: in the confirmation dialogs and in
\* Search and Command mode, where no key reaches the cases of Normal mode, any
\* key; in Normal mode the keys whose case is modelled. (None of the other cases
\* of Update assigns vimState.Mode or calls EnterSearchMode, EnterCommandMode.)
KeyNames(mm) ==
    IF mm.s3ConfirmDelete \/ mm.showingConfirm \/ mm.vimState.Mode # NormalMode
    THEN ModelledKeys \cup { "backspace", "Y", "c", "2", "3", "f" }
    ELSE ModelledKeys

\* The messages that can arrive in a state: a key, or the outcome of a command in
\* flight.
Arrivals ==
    { KeyMsg(k) : k \in KeyNames(m) }
    \cup UNION { Outcomes(t) : t \in BagToSet(inflight) }

\* The selection index and the filtered view of the list of the current screen.
Selection(mm) ==
    CASE mm.currentScreen = "accountScreen" -> mm.ssoSelectedIndex
      [] mm.currentScreen = "ec2Screen" -> mm.ec2SelectedIndex
      [] mm.currentScreen = "s3Screen" -> mm.s3SelectedIndex
      [] mm.currentScreen = "s3BrowseScreen" -> mm.s3ObjectSelectedIndex
      [] mm.currentScreen = "eksScreen" -> mm.eksSelectedIndex
      [] OTHER -> mm.regionSelectedIndex

FilteredView(mm) ==
    CASE mm.currentScreen = "accountScreen" -> mm.ssoFilteredAccounts
      [] mm.currentScreen = "ec2Screen" -> mm.ec2FilteredInstances
      [] mm.currentScreen = "s3Screen" -> mm.s3FilteredBuckets
      [] mm.currentScreen = "s3BrowseScreen" -> mm.s3FilteredObjects
      [] mm.currentScreen = "eksScreen" -> mm.eksFilteredClusters
      [] OTHER -> <<>>

\* All the selection indices of the model.
Selections(mm) ==
    << mm.ec2SelectedIndex, mm.s3SelectedIndex, mm.s3ObjectSelectedIndex,
       mm.eksSelectedIndex, mm.ssoSelectedIndex, mm.regionSelectedIndex >>

\* The selection is a row of the active list: of the filtered view when it has
\* rows, of the canonical list when no search is applied.
ActiveInRange(filtered, canonical, sel) ==
    IF Len(filtered) > 0 THEN 0 <= sel /\ sel < Len(filtered)
    ELSE (m.vimState.LastSearch = <<>> /\ Len(canonical) > 0) =>
            (0 <= sel /\ sel < Len(canonical))

\* C1: after any sequence of keys and completions, on every list screen whose
\* active list (the filtered view when there is one, else the canonical list) is
\* not empty, 0 <= selectionIndex < len(activeList); also after n / N in a
\* filtered view and after a reload.
C1_SelectionInActiveList ==
    /\ ActiveInRange(m.ec2FilteredInstances, m.ec2Instances, m.ec2SelectedIndex)
    /\ ActiveInRange(m.s3FilteredBuckets, m.s3Buckets, m.s3SelectedIndex)
    /\ ActiveInRange(m.s3FilteredObjects, m.s3Objects, m.s3ObjectSelectedIndex)
    /\ ActiveInRange(m.eksFilteredClusters, m.eksClusters, m.eksSelectedIndex)
    /\ ActiveInRange(m.ssoFilteredAccounts, m.ssoAccounts, m.ssoSelectedIndex)
    /\ m.regionSelectedIndex \in 0..(NumRegions - 1)

\* C6: on a list screen, when a search is committed and its filtered view has
\* k >= 1 rows, the selection is on filtered index 0 and each press of n moves it
\* to the next row of the filtered view, from k-1 back to 0: one, two and three
\* presses select the filtered indices 1 % k, 2 % k and 3 % k.
C6_NextMatchWalksFilteredView ==
    ( /\ m.vimState.Mode = SearchMode
      /\ m.currentScreen \in SearchScreens
      /\ m.vimState.SearchQuery # <<>> ) =>
        LET s0 == Update(m, KeyMsg("enter")).m
            k == Len(FilteredView(s0))
            s1 == Update(s0, KeyMsg("n")).m
            s2 == Update(s1, KeyMsg("n")).m
            s3 == Update(s2, KeyMsg("n")).m
        IN  k >= 1 =>
              /\ Selection(s0) = 0
              /\ Selection(s1) = 1 % k
              /\ Selection(s2) = 2 % k
              /\ Selection(s3) = 3 % k

\* The mode changes along the four transitions only, whatever message arrives;
\* "/" and ":" in Normal mode enter Search and Command mode with an empty query,
\* empty results and an empty buffer (with dialogsAside: when no confirmation
\* dialog is open); Enter and Escape leave Search and Command mode.
ModeTransitions(dialogsAside) ==
    /\ initialModel.vimState.Mode = NormalMode
    /\ \A msg \in Arrivals :
          LET from == m.vimState.Mode
              vs == Update(m, msg).m.vimState
              to == vs.Mode
              key == IF msg.type = "KeyMsg" THEN msg.key ELSE ""
              free == dialogsAside => ~(m.showingConfirm \/ m.s3ConfirmDelete)
          IN  /\ to # from =>
                    \/ from = NormalMode /\ key = "/" /\ to = SearchMode
                    \/ from = NormalMode /\ key = ":" /\ to = CommandMode
                    \/ from \in {SearchMode, CommandMode} /\ key \in {"enter", "esc"}
                       /\ to = NormalMode
              /\ (from = NormalMode /\ key = "/" /\ free) =>
                    (to = SearchMode /\ vs.SearchQuery = <<>> /\ vs.SearchResults = <<>>)
              /\ (from = NormalMode /\ key = ":" /\ free) =>
                    (to = CommandMode /\ vs.CommandBuffer = <<>>)
              /\ (from \in {SearchMode, CommandMode} /\ key \in {"enter", "esc"}) =>
                    to = NormalMode

\* C8: the input mode changes only along Normal -/-> Search, Normal -:-> Command,
\* Search -Enter|Escape-> Normal, Command -Enter|Escape-> Normal; the first mode is
\* Normal; no other key and no completion changes the mode; and, while no
\* confirmation dialog is open, "/" in Normal mode always gives Search mode with an
\* empty query and empty results and ":" always gives Command mode with an empty
\* buffer.
C8_ModeTransitions == ModeTransitions(TRUE)

\* C8 witness: Search mode was entered with "/" while the query of the search
\* before was still applied: the query and the results are empty.
C8_Witness ==
    /\ m.vimState.Mode = SearchMode
    /\ m.vimState.SearchQuery = <<>>
    /\ m.vimState.SearchResults = <<>>
    /\ m.vimState.LastSearch # <<>>

\* C8 as stated: "/" and ":" in Normal mode enter Search and Command mode always,
\* a confirmation dialog or not.
C8_AlwaysEntered == ModeTransitions(FALSE)

\* Search and Command mode keep every key but Enter and Escape to themselves: a
\* key of one character is added to the buffer of the mode, Backspace removes the
\* last character, any other key leaves the buffer alone (with tabCompletes: Tab
\* in Command mode extends it); the key does not quit, issue a command, change the
\* screen, the dialog or the loading flag, and no selection moves (with
\* searchResets: but to row 0, by the search run again in Search mode).
ModeKeepsKeys(searchResets, tabCompletes) ==
    (m.vimState.Mode \in {SearchMode, CommandMode}) =>
        \A k \in KeyNames(m) \ {"enter", "esc"} :
            LET r == Update(m, KeyMsg(k))
                inSearch == m.vimState.Mode = SearchMode
                old == IF inSearch THEN m.vimState.SearchQuery
                       ELSE m.vimState.CommandBuffer
                new == IF inSearch THEN r.m.vimState.SearchQuery
                       ELSE r.m.vimState.CommandBuffer
            IN  /\ r.m.vimState.Mode = m.vimState.Mode
                /\ IF Len(k) = 1 THEN new = Append(old, k)
                   ELSE IF k = "backspace"
                        THEN new = IF old = <<>> THEN <<>> ELSE DropLast(old)
                   ELSE IF k = "tab" /\ ~inSearch /\ tabCompletes
                        THEN HasPrefix(new, old)
                   ELSE new = old
                /\ ~r.quit
                /\ r.cmds = {}
                /\ r.m.currentScreen = m.currentScreen
                /\ r.m.showingConfirm = m.showingConfirm
                /\ r.m.loading = m.loading
                /\ r.m.viewportOffset = m.viewportOffset
                /\ \A i \in 1..6 :
                      \/ Selections(r.m)[i] = Selections(m)[i]
                      \/ searchResets /\ inSearch /\ Selections(r.m)[i] = 0

C10_EscapeKeepsLastSearch ==
    m.vimState.Mode = SearchMode =>
        LET vs == Update(m, KeyMsg("esc")).m.vimState
        IN  vs.Mode = NormalMode /\ vs.LastSearch = searchEntry

\* The canonical list of the current screen and the texts applyVimSearch searches.
Canonical(mm) ==
    CASE mm.currentScreen = "accountScreen" -> mm.ssoAccounts
      [] mm.currentScreen = "ec2Screen" -> mm.ec2Instances
      [] mm.currentScreen = "s3Screen" -> mm.s3Buckets
      [] mm.currentScreen = "s3BrowseScreen" -> mm.s3Objects
      [] mm.currentScreen = "eksScreen" -> mm.eksClusters
      [] OTHER -> <<>>

SearchText(mm, i) ==
    CASE mm.currentScreen = "accountScreen" -> AccountSearchText(mm.ssoAccounts[i])
      [] mm.currentScreen = "ec2Screen" -> InstanceSearchText(mm.ec2Instances[i])
      [] mm.currentScreen = "s3Screen" -> BucketSearchText(mm.s3Buckets[i])
      [] mm.currentScreen = "s3BrowseScreen" -> ObjectSearchText(mm.s3Objects[i])
      [] mm.currentScreen = "eksScreen" -> ClusterSearchText(mm.eksClusters[i])

\* C11: Escape in Search mode discards the search: afterwards the mode is Normal,
\* the query is empty, no filtered view is active on the current screen,
\* SearchResults is empty and LastSearch is empty.
C11_EscapeDiscardsSearch ==
    (m.vimState.Mode = SearchMode /\ m.currentScreen \in SearchScreens) =>
        LET r == Update(m, KeyMsg("esc")).m
        IN  /\ r.vimState.Mode = NormalMode
            /\ r.vimState.SearchQuery = <<>>
            /\ FilteredView(r) = <<>>
            /\ r.vimState.SearchResults = <<>>
            /\ r.vimState.LastSearch = <<>>

\* C12: Enter in Search mode commits the search: LastSearch becomes the query, the
\* mode becomes Normal, the filtered view of the current screen and every
\* selection index are the same after Enter as before it, no command is issued
\* and the screen does not change.
C12_EnterCommitsSearch ==
    m.vimState.Mode = SearchMode =>
        LET r == Update(m, KeyMsg("enter"))
        IN  /\ r.m.vimState.LastSearch = m.vimState.SearchQuery
            /\ r.m.vimState.Mode = NormalMode
            /\ FilteredView(r.m) = FilteredView(m)
            /\ Selections(r.m) = Selections(m)
            /\ r.cmds = {}
            /\ ~r.quit
            /\ r.m.currentScreen = m.currentScreen

\* C12 witness: the search for "ec2" was committed with Enter on the four
\* instances: three rows are shown and the first is selected.
C12_Witness ==
    /\ m.vimState.Mode = NormalMode
    /\ m.vimState.SearchQuery = <<"e", "c", "2">>
    /\ m.vimState.LastSearch = <<"e", "c", "2">>
    /\ Len(m.ec2Instances) = 4
    /\ Len(m.ec2FilteredInstances) = 3
    /\ m.ec2SelectedIndex = 0

\* C13: in Search mode the filter is computed anew on every edit of the query:
\* after a character or Backspace, on every list screen, SearchResults is the
\* increasing sequence of exactly the indices of the canonical rows that contain
\* the query, the filtered view is those rows in order, the selection is 0 when
\* there is a match and the filtered view is empty when there is none; and when
\* the query has become empty no filtered view is left.
C13_FilterFollowsQuery ==
    (m.vimState.Mode = SearchMode /\ m.currentScreen \in SearchScreens) =>
        \A k \in { key \in KeyNames(m) : Len(key) = 1 } \cup {"backspace"} :
            LET r == Update(m, KeyMsg(k)).m
                q == r.vimState.SearchQuery
                R == r.vimState.SearchResults
                list == Canonical(r)
                IsMatch(i) == Contains(SearchText(r, i + 1), ToLower(q))
            IN  IF q = <<>> THEN FilteredView(r) = <<>>
                ELSE /\ \A j \in 1..Len(R) : R[j] \in 0..(Len(list) - 1) /\ IsMatch(R[j])
                     /\ \A j \in 1..(Len(R) - 1) : R[j] < R[j + 1]
                     /\ \A i \in 0..(Len(list) - 1) :
                           IsMatch(i) => \E j \in 1..Len(R) : R[j] = i
                     /\ FilteredView(r) = [j \in 1..Len(R) |-> list[R[j] + 1]]
                     /\ Len(R) > 0 => Selection(r) = 0

\* The messages the commands in flight can come back with.
Completions ==
    UNION { Outcomes(t) : t \in { u \in BagToSet(inflight) :
                                    u.client \/ u.type = "initAWSClient" } }

\* C14: every completion delivered to Update is folded, whatever the state it
\* arrives in (Search or Command mode, a dialog showing): Update treats it as the
\* fold of the main switch does, and the completion of a load or of an action
\* leaves loading false.
C14_CompletionsFolded ==
    \A msg \in Completions :
        /\ Update(m, msg) = UpdateMain(m, msg)
        /\ msg.type # "awsClient" => ~Update(m, msg).m.loading

\* C15: loading follows the commands: a step of Update that issues a command
\* leaves loading true, and a step that folds the completion of a load or of an
\* action without issuing a command leaves loading false.
C15_LoadingFollowsTasks ==
    \A msg \in Arrivals :
        LET r == Update(m, msg)
        IN  /\ r.cmds # {} => r.m.loading
            /\ ( /\ msg \in Completions
                 /\ msg.type # "awsClient"
                 /\ ~m.showingConfirm
                 /\ m.vimState.Mode = NormalMode
                 /\ r.cmds = {} ) => ~r.m.loading

\* --- model.loadEKSClusterDetails --------------------------------------------

\* The three goroutines: cluster details, node groups, add-ons.
Fetches == {1, 2, 3}

\* make(chan error, 3)
ErrChanCap == 3

\* A bug a maintainer could introduce: the last error wins.
FoldErrLast(firstErr, err) == IF err # "nil" THEN err ELSE firstErr

\* if err := <-errChan; err != nil && firstErr == nil { firstErr = err }
FoldErr(firstErr, err) == IF err # "nil" /\ firstErr = "nil" THEN err ELSE firstErr

\* The statement of a goroutine that follows `at`: after a failed call the error
\* is sent and then nil on the data channel; after a successful call the data is
\* sent and then nil on errChan.
AfterStep(failed, at) ==
    IF failed
    THEN CASE at = "call" -> "sendErr" [] at = "sendErr" -> "sendData" [] OTHER -> "done"
    ELSE CASE at = "call" -> "sendData" [] at = "sendData" -> "sendErr" [] OTHER -> "done"

\* The error and the result of the call of goroutine g.
ErrOf(g) == <<"details failed", "node groups failed", "addons failed">>[g]
ResultOf(g) == <<"details", "node groups", "addons">>[g]

\* The receive the command is at waits for the data channel of goroutine g.
WaitsFor(g) == <<"details", "nodeGroups", "addons">>[g]

InitEKS ==
    /\ m = initialModel
    /\ AppIdle
    /\ call = [ fn |-> "loadEKSClusterDetails",
                pc |-> [g \in Fetches |-> "call"],
                failed |-> [g \in Fetches |-> FALSE],
                main |-> "details",
                data |-> [g \in Fetches |-> "unset"],
                errChan |-> <<>>,
                errSent |-> <<>>,
                received |-> 0,
                firstErr |-> "nil",
                msgs |-> <<>> ]

\* The AWS call of goroutine g returns, with or without an error.
FetchReturns(g) ==
    /\ call.pc[g] = "call"
    /\ \E failed \in BOOLEAN :
          call' = [call EXCEPT !.failed[g] = failed,
                               !.pc[g] = AfterStep(failed, "call")]
    /\ UNCHANGED <<m, inflight, running, user, searchEntry>>

\* errChan <- err, or errChan <- nil: blocks while the buffer is full.
SendErr(g) ==
    /\ call.pc[g] = "sendErr"
    /\ Len(call.errChan) < ErrChanCap
    /\ LET err == IF call.failed[g] THEN ErrOf(g) ELSE "nil"
       IN  call' = [call EXCEPT !.errChan = Append(call.errChan, err),
                                !.errSent = Append(call.errSent, err),
                                !.pc[g] = AfterStep(call.failed[g], "sendErr")]
    /\ UNCHANGED <<m, inflight, running, user, searchEntry>>

\* The data channels have no buffer: the send of goroutine g and the receive of
\* the command happen together.
SendData(g) ==
    /\ call.pc[g] = "sendData"
    /\ call.main = WaitsFor(g)
    /\ call' = [call EXCEPT
                  !.data[g] = IF call.failed[g] THEN "nil" ELSE ResultOf(g),
                  !.pc[g] = AfterStep(call.failed[g], "sendData"),
                  !.main = IF g = 3 THEN "errors" ELSE WaitsFor(g + 1)]
    /\ UNCHANGED <<m, inflight, running, user, searchEntry>>

\* One round of the loop over errChan.
ReceiveErr ==
    /\ call.main = "errors"
    /\ call.received < 3
    /\ call.errChan # <<>>
    /\ call' = [call EXCEPT !.errChan = Tail(call.errChan),
                            !.received = call.received + 1,
                            !.firstErr = FoldErr(call.firstErr, Head(call.errChan))]
    /\ UNCHANGED <<m, inflight, running, user, searchEntry>>

\* return eksClusterDetailsLoadedMsg{...}
ReturnMsg ==
    /\ call.main = "errors"
    /\ call.received = 3
    /\ call' = [call EXCEPT
                  !.main = "returned",
                  !.msgs = Append(call.msgs,
                                  [ type |-> "eksClusterDetailsLoadedMsg",
                                    details |-> call.data[1],
                                    nodeGroups |-> call.data[2],
                                    addons |-> call.data[3],
                                    err |-> call.firstErr ])]
    /\ UNCHANGED <<m, inflight, running, user, searchEntry>>

NextEKS ==
    \/ \E g \in Fetches : FetchReturns(g)
    \/ \E g \in Fetches : SendErr(g)
    \/ \E g \in Fetches : SendData(g)
    \/ ReceiveErr
    \/ ReturnMsg

SpecEKS == InitEKS /\ [][NextEKS]_vars

\* C16: under every interleaving and every combination of failures of the three
\* sub-fetches, loadEKSClusterDetails does not deadlock and leaves no goroutine
\* blocked on a channel (a state without a step is the state where the command
\* has returned and the goroutines are done); it returns exactly one message,
\* after all three calls have returned; its err is the first error sent (nil when
\* none failed); and the result of every call that succeeded is in the message.
C16_FanOutJoined ==
    LET FirstError ==
            IF \E i \in 1..Len(call.errSent) : call.errSent[i] # "nil"
            THEN call.errSent[CHOOSE i \in 1..Len(call.errSent) :
                                 /\ call.errSent[i] # "nil"
                                 /\ \A j \in 1..(i - 1) : call.errSent[j] = "nil"]
            ELSE "nil"
    IN  /\ Len(call.msgs) <= 1
        /\ (~ENABLED NextEKS) =>
              /\ call.main = "returned"
              /\ \A g \in Fetches : call.pc[g] = "done"
              /\ call.errChan = <<>>
        /\ call.main = "returned" =>
              /\ Len(call.msgs) = 1
              /\ \A g \in Fetches : call.pc[g] # "call"
              /\ call.msgs[1].err = FirstError
              /\ (call.msgs[1].err = "nil") = (\A g \in Fetches : ~call.failed[g])
              /\ ~call.failed[1] => call.msgs[1].details = ResultOf(1)
              /\ ~call.failed[2] => call.msgs[1].nodeGroups = ResultOf(2)
              /\ ~call.failed[3] => call.msgs[1].addons = ResultOf(3)

\* C16 witness: the add-ons and the node groups failed, in this order, and the
\* cluster details succeeded: the message carries the error of the add-ons and
\* the details.
C16_Witness ==
    /\ call.fn = "loadEKSClusterDetails"
    /\ call.main = "returned"
    /\ call.errSent[1] = ErrOf(3)
    /\ call.failed[2]
    /\ call.msgs[1].err = ErrOf(3)
    /\ call.msgs[1].details = ResultOf(1)
    /\ call.msgs[1].nodeGroups = "nil"

\* C17: the fold of an eksClusterDetailsLoadedMsg that has an error and the
\* results of the calls that succeeded records the error, stores these results
\* and shows the EKS details screen.
C17_PartialDetailsShown ==
    (~m.showingConfirm /\ m.vimState.Mode = NormalMode) =>
       \A task \in BagToSet(inflight) :
          task.type = "loadEKSClusterDetails" =>
             LET r == Update(m, PartlyLoaded("eksClusterDetailsLoadedMsg", task.arg[1])).m
             IN  /\ r.err
                 /\ r.eksClusterDetails = task.arg[1]
                 /\ r.currentScreen = "eksDetailsScreen"

\* The screens on which the step that issues a command of this type leaves the
\* user. Instances are reloaded from every screen (after the client is created,
\* after an action); buckets after a delete; objects by the ":" commands too.
Origins(type) ==
    CASE type = "loadEC2InstanceDetails" -> {"ec2Screen"}
      [] type = "loadS3Objects" -> {"s3Screen", "s3BrowseScreen"}
      [] type = "loadS3ObjectDetails" -> {"s3BrowseScreen"}
      [] type = "loadEKSClusters" -> {"eksScreen"}
      [] type = "loadEKSClusterDetails" -> {"eksScreen"}
      [] OTHER -> Screens

\* The data of the model that View renders on this screen.
Displayed(mm, screen) ==
    CASE screen = "ec2Screen" ->
            <<mm.ec2Instances, mm.ec2FilteredInstances, mm.ec2SelectedIndex>>
      [] screen = "ec2DetailsScreen" -> <<mm.ec2InstanceDetails>>
      [] screen = "s3Screen" -> <<mm.s3Buckets, mm.s3FilteredBuckets, mm.s3SelectedIndex>>
      [] screen = "s3BrowseScreen" ->
            <<mm.s3Objects, mm.s3FilteredObjects, mm.s3ObjectSelectedIndex>>
      [] screen = "s3ObjectDetailsScreen" -> <<mm.s3ObjectDetails>>
      [] screen = "eksScreen" ->
            <<mm.eksClusters, mm.eksFilteredClusters, mm.eksSelectedIndex>>
      [] screen = "eksDetailsScreen" -> <<mm.eksClusterDetails>>
      [] screen = "accountScreen" ->
            <<mm.ssoAccounts, mm.ssoFilteredAccounts, mm.ssoSelectedIndex>>
      [] OTHER -> <<mm.regionSelectedIndex>>

\* C18: when the completion of a load is folded on a screen that is not a screen
\* the load was issued from, the fold changes neither the current screen nor the
\* data shown on it.
C18_StaleCompletionDiscarded ==
    \A task \in BagToSet(inflight) :
       (task.client /\ m.currentScreen \notin Origins(task.type)) =>
          \A msg \in Outcomes(task) :
             LET r == Update(m, msg).m
             IN  /\ r.currentScreen = m.currentScreen
                 /\ Displayed(r, m.currentScreen) = Displayed(m, m.currentScreen)

\* The message a command comes back with when its call fails.
Failure(task) ==
    Failed(CASE task.type \in {"initAWSClient", "loadEC2Instances"} -> "instancesLoadedMsg"
             [] task.type = "loadS3Buckets" -> "bucketsLoadedMsg"
             [] task.type = "loadEKSClusters" -> "eksClustersLoadedMsg"
             [] task.type = "loadS3Objects" -> "objectsLoadedMsg"
             [] task.type = "loadEC2InstanceDetails" -> "instanceDetailsLoadedMsg"
             [] task.type = "loadS3ObjectDetails" -> "objectDetailsLoadedMsg"
             [] task.type = "loadEKSClusterDetails" -> "eksClusterDetailsLoadedMsg"
             [] task.type = "performInstanceAction" -> "instanceActionCompletedMsg"
             [] task.type \in {"deleteS3Object", "deleteS3Bucket"} -> "s3ActionCompletedMsg"
             [] OTHER -> "bulkActionCompletedMsg")

\* The lists, the filtered views and the detail data of the model.
Data(mm) ==
    << mm.ec2Instances, mm.ec2FilteredInstances, mm.ec2InstanceDetails,
       mm.s3Buckets, mm.s3FilteredBuckets, mm.s3Objects, mm.s3FilteredObjects,
       mm.s3ObjectDetails, mm.eksClusters, mm.eksFilteredClusters,
       mm.eksClusterDetails, mm.ssoAccounts, mm.ssoFilteredAccounts >>

\* C19: the fold of a completion that has an error changes only the report of
\* errors: the error is the last error of the model, and the lists, the filtered
\* views, the selection indices, the detail data and the screen are as before.
C19_ErrorsOnlyReported ==
    (~m.showingConfirm /\ m.vimState.Mode = NormalMode) =>
       \A task \in BagToSet(inflight) :
          LET r == Update(m, Failure(task)).m
          IN  /\ r.err
              /\ Data(r) = Data(m)
              /\ Selections(r) = Selections(m)
              /\ r.currentScreen = m.currentScreen

MaxTargets == 3

BulkActions == {"start", "stop", "reboot", "terminate"}

\* The ids of the selection, in the order the range over the map gives them.
TargetLists ==
    { ids \in UNION { [1..n -> 1..MaxTargets] : n \in 1..MaxTargets } :
        \A i, j \in 1..Len(ids) : ids[i] = ids[j] => i = j }

\* A bug a maintainer could introduce: a failed call is counted as a success too.
CountCallBoth(counts, failed) ==
    [ successCount |-> counts.successCount + 1,
      failureCount |-> counts.failureCount + (IF failed THEN 1 ELSE 0) ]

\* if err != nil { failureCount++ } else { successCount++ }
CountCall(counts, failed) ==
    IF failed THEN [counts EXCEPT !.failureCount = counts.failureCount + 1]
    ELSE [counts EXCEPT !.successCount = counts.successCount + 1]

\* The status message Update writes for a bulkActionCompletedMsg: the action and
\* the numbers printed, in order.
BulkStatus(msg) ==
    IF msg.failureCount > 0
    THEN [ action |-> msg.action, text |-> "succeeded, failed",
           numbers |-> <<msg.successCount, msg.failureCount>> ]
    ELSE [ action |-> msg.action, text |-> "instances succeeded",
           numbers |-> <<msg.successCount>> ]

InitBulk ==
    /\ m = initialModel
    /\ AppIdle
    /\ \E action \in BulkActions, ids \in TargetLists :
          call = [ fn |-> "performBulkAction",
                   action |-> action,
                   instanceIDs |-> ids,
                   next |-> 1,
                   errors |-> {},
                   counts |-> [successCount |-> 0, failureCount |-> 0],
                   msgs |-> <<>>,
                   statusMessage |-> <<>> ]

\* One round of the loop: the call for the next id returns, with an error or not.
BulkCall ==
    /\ call.next <= Len(call.instanceIDs)
    /\ \E failed \in BOOLEAN :
          call' = [call EXCEPT
                     !.next = call.next + 1,
                     !.errors = IF failed THEN call.errors \cup {call.instanceIDs[call.next]}
                                ELSE call.errors,
                     !.counts = CountCall(call.counts, failed)]
    /\ UNCHANGED <<m, inflight, running, user, searchEntry>>

\* return bulkActionCompletedMsg{...}
BulkReturn ==
    /\ call.next = Len(call.instanceIDs) + 1
    /\ call.msgs = <<>>
    /\ call' = [call EXCEPT !.msgs = << [ type |-> "bulkActionCompletedMsg",
                                          action |-> call.action,
                                          successCount |-> call.counts.successCount,
                                          failureCount |-> call.counts.failureCount ] >>]
    /\ UNCHANGED <<m, inflight, running, user, searchEntry>>

\* Update, case bulkActionCompletedMsg: the status message.
BulkFold ==
    /\ call.msgs # <<>>
    /\ call.statusMessage = <<>>
    /\ call' = [call EXCEPT !.statusMessage = <<BulkStatus(call.msgs[1])>>]
    /\ UNCHANGED <<m, inflight, running, user, searchEntry>>

NextBulk == BulkCall \/ BulkReturn \/ BulkFold

SpecBulk == InitBulk /\ [][NextBulk]_vars

\* The counts of the message add up to the number of ids, the failure count is
\* the number of ids whose call returned an error, and the status message written
\* by the fold shows the success count and (always, or with onlyFailures when
\* the failure count is positive) the failure count.
BulkCounts(onlyFailures) ==
    /\ call.msgs # <<>> =>
          /\ call.msgs[1].successCount + call.msgs[1].failureCount = Len(call.instanceIDs)
          /\ call.msgs[1].failureCount = Cardinality(call.errors)
          /\ call.msgs[1].action = call.action
    /\ call.statusMessage # <<>> =>
          LET status == call.statusMessage[1]
              msg == call.msgs[1]
          IN  /\ status.action = msg.action
              /\ status.numbers[1] = msg.successCount
              /\ (onlyFailures => msg.failureCount > 0) =>
                    (Len(status.numbers) = 2 /\ status.numbers[2] = msg.failureCount)

\* C21: for every bulk action, set of targeted ids and pattern of failures, the
\* message has successCount + failureCount = number of ids and failureCount = the
\* number of ids whose call returned an error; the status message written by the
\* fold shows the success count, and the failure count when a call failed.
C21_BulkCounts == BulkCounts(TRUE)

\* C21 witness: three ids, one call failed: "2 succeeded, 1 failed".
C21_Witness ==
    /\ call.fn = "performBulkAction"
    /\ Len(call.instanceIDs) = 3
    /\ Cardinality(call.errors) = 1
    /\ call.statusMessage # <<>>
    /\ call.statusMessage[1].numbers = <<2, 1>>

\* C21 as stated: both counts are in the status message always.
C21_BothCountsShown == BulkCounts(FALSE)

\* C22: the multi-select set is empty after every step that changes the screen,
\* after "x" on the EC2 list in Normal mode, and after every step in which the
\* completion of a bulk action arrives.
C22_SelectionCleared ==
    \A msg \in Arrivals :
       LET r == Update(m, msg).m
       IN  /\ r.currentScreen # m.currentScreen => r.ec2SelectedInstances = {}
           /\ (msg = KeyMsg("x") /\ m.currentScreen = "ec2Screen"
               /\ m.vimState.Mode = NormalMode /\ ~m.showingConfirm) =>
                 r.ec2SelectedInstances = {}
           /\ msg.type = "bulkActionCompletedMsg" => r.ec2SelectedInstances = {}

\* The command lines of at most MaxLine characters over a small alphabet.
MaxLine == 4

Lines == UNION { [1..n -> {"e", "a", " "}] : n \in 0..MaxLine }

\* The tokens of a line, read off the positions where a run of characters other
\* than the space starts and ends.
Tokens(line) ==
    LET starts == { i \in 1..Len(line) :
                      line[i] # " " /\ (i = 1 \/ line[i - 1] = " ") }
        EndOf(i) == CHOOSE j \in i..Len(line) :
                       /\ \A k \in i..j : line[k] # " "
                       /\ (j = Len(line) \/ line[j + 1] = " ")
        Nth(k) == CHOOSE i \in starts : Cardinality({ j \in starts : j < i }) = k - 1
    IN  [ k \in 1..Cardinality(starts) |-> SubSeq(line, Nth(k), EndOf(Nth(k))) ]

\* C23: ParseCommand gives the first token of the line as Name and the other
\* tokens, in order, as Args, and the empty command for a line without tokens;
\* and ":" followed by a line without tokens and Enter leaves the model as it
\* was before ":" and issues no command.
C23_ParseCommandAndEmptyLine ==
    /\ \A line \in Lines :
          LET cmd == ParseCommand(line)
              tokens == Tokens(line)
          IN  IF Len(tokens) = 0 THEN cmd = [Name |-> <<>>, Args |-> <<>>]
              ELSE cmd.Name = tokens[1] /\ cmd.Args = Tail(tokens)
    /\ ParseCommand(<<"e", "c", "h", "o", " ", "a", " ", "b">>)
          = [Name |-> <<"e", "c", "h", "o">>, Args |-> << <<"a">>, <<"b">> >>]
    /\ (m.vimState.Mode = NormalMode /\ ~m.showingConfirm /\ ~m.s3ConfirmDelete) =>
          \A line \in { <<>>, <<" ">>, <<" ", " ">> } :
             LET m1 == Update(m, KeyMsg(":")).m
                 m2 == IF Len(line) > 0 THEN Update(m1, KeyMsg(" ")).m ELSE m1
                 m3 == IF Len(line) > 1 THEN Update(m2, KeyMsg(" ")).m ELSE m2
                 r == Update(m3, KeyMsg("enter"))
             IN  /\ m3.vimState.Mode = CommandMode
                 /\ m3.vimState.CommandBuffer = line
                 /\ r.m = m
                 /\ r.cmds = {}
                 /\ ~r.quit

\* C24: ":" followed by an unknown verb ("x") and Enter issues no command and
\* leaves the screen, the lists, the filtered views, the selection indices, the
\* multi-select set, loading and LastSearch as they were before ":".
C24_UnknownVerbFrame ==
    (m.vimState.Mode = NormalMode /\ ~m.showingConfirm /\ ~m.s3ConfirmDelete) =>
       LET m1 == Update(m, KeyMsg(":")).m
           m2 == Update(m1, KeyMsg("x")).m
           r == Update(m2, KeyMsg("enter"))
       IN  /\ m2.vimState.Mode = CommandMode
           /\ ParseCommand(m2.vimState.CommandBuffer).Name = <<"x">>
           /\ r.cmds = {}
           /\ ~r.quit
           /\ r.m.vimState.Mode = NormalMode
           /\ r.m.currentScreen = m.currentScreen
           /\ Data(r.m) = Data(m)
           /\ Selections(r.m) = Selections(m)
           /\ r.m.ec2SelectedInstances = m.ec2SelectedInstances
           /\ r.m.loading = m.loading
           /\ r.m.vimState.LastSearch = m.vimState.LastSearch

\* --- vim.CompleteCommand and the Tab key of Command mode -----------------------

\* The longest text typed that is not the start of a command.
MaxPrefix == 2

\* The number of times Tab is pressed.
MaxTabs == 2

\* The buffers typed: every start of every command, and short texts over a few
\* letters, most of which start no command.
Prefixes ==
    UNION { { SubSeq(AllCommands[i], 1, k) : k \in 0..Len(AllCommands[i]) } :
              i \in 1..Len(AllCommands) }
    \cup SeqsUpTo({"q", "a", "x", "s", "e", "r"}, MaxPrefix)

\* Command mode with this buffer typed: the suggestions are those of the last key.
InitComplete ==
    /\ m = initialModel
    /\ AppIdle
    /\ \E prefix \in Prefixes :
          call = [ fn |-> "CompleteCommand",
                   prefix |-> prefix,
                   CommandBuffer |-> prefix,
                   commandSuggestions |-> GetCommandSuggestions(prefix),
                   isComplete |-> FALSE,
                   tabs |-> 0,
                   first |-> <<>> ]

\* Update, "Handle tab completion in command mode"
TabCompletion ==
    /\ call.tabs < MaxTabs
    /\ LET completed == CompleteCommand(call.CommandBuffer)
           suggestions == IF ~completed.complete
                          THEN GetCommandSuggestions(completed.text) ELSE <<>>
       IN  call' = [call EXCEPT
                      !.CommandBuffer = completed.text,
                      !.isComplete = completed.complete,
                      !.commandSuggestions = suggestions,
                      !.tabs = call.tabs + 1,
                      !.first = IF call.tabs = 0
                                THEN << [ CommandBuffer |-> completed.text,
                                          isComplete |-> completed.complete,
                                          commandSuggestions |-> suggestions ] >>
                                ELSE call.first]
    /\ UNCHANGED <<m, inflight, running, user, searchEntry>>

NextComplete == TabCompletion

SpecComplete == InitComplete /\ [][NextComplete]_vars

\* C25: after Tab on the buffer p: when one command starts with p the buffer is
\* that command and the completion is complete; when several do, the buffer is
\* their longest common prefix, which starts with p, the completion is not
\* complete and the suggestions are the commands that start with the buffer, each
\* once; when none does the buffer is p. A second Tab changes nothing.
C25_PrefixCompletion ==
    LET Known(q) == { AllCommands[i] : i \in { j \in 1..Len(AllCommands) :
                                                  HasPrefix(AllCommands[j], q) } }
        known == Known(call.prefix)
        IsCommon(q) == \A c \in known : HasPrefix(c, q)
        AsSet(list) == { list[i] : i \in 1..Len(list) }
    IN  /\ call.tabs >= 1 =>
              LET first == call.first[1]
              IN  /\ Cardinality(known) = 1 =>
                        /\ first.CommandBuffer \in known
                        /\ first.isComplete
                  /\ Cardinality(known) > 1 =>
                        /\ IsCommon(first.CommandBuffer)
                        /\ \A c \in known : \A k \in 0..Len(c) :
                              IsCommon(SubSeq(c, 1, k)) => k <= Len(first.CommandBuffer)
                        /\ HasPrefix(first.CommandBuffer, call.prefix)
                        /\ ~first.isComplete
                        /\ AsSet(first.commandSuggestions) = Known(first.CommandBuffer)
                        /\ Len(first.commandSuggestions)
                              = Cardinality(Known(first.CommandBuffer))
                  /\ Cardinality(known) = 0 =>
                        /\ first.CommandBuffer = call.prefix
                        /\ ~first.isComplete
        /\ call.tabs = 2 =>
              /\ call.CommandBuffer = call.first[1].CommandBuffer
              /\ call.isComplete = call.first[1].isComplete
              /\ call.commandSuggestions = call.first[1].commandSuggestions

\* C25 witness: Tab on "a" gave "acc", the longest common prefix of account and
\* acc, and a second Tab left it.
C25_Witness ==
    /\ call.fn = "CompleteCommand"
    /\ call.prefix = <<"a">>
    /\ call.tabs = 2
    /\ call.CommandBuffer = <<"a", "c", "c">>
    /\ ~call.isComplete
    /\ Len(call.commandSuggestions) = 2

\* C26: on every list screen, in Normal mode with a search applied, Escape and
\* the command :cf leave LastSearch empty, SearchResults empty and no filtered
\* view for the screen.
C26_FilterCleared ==
    (m.vimState.Mode = NormalMode /\ ~m.showingConfirm /\ ~m.s3ConfirmDelete
     /\ m.currentScreen \in SearchScreens /\ m.vimState.LastSearch # <<>>) =>
       LET Cleared(mm) ==
               /\ mm.vimState.Mode = NormalMode
               /\ mm.currentScreen = m.currentScreen
               /\ mm.vimState.LastSearch = <<>>
               /\ mm.vimState.SearchResults = <<>>
               /\ FilteredView(mm) = <<>>
               /\ Canonical(mm) = Canonical(m)
           m1 == Update(m, KeyMsg(":")).m
           m2 == Update(m1, KeyMsg("c")).m
           m3 == Update(m2, KeyMsg("f")).m
       IN  /\ Cleared(Update(m, KeyMsg("esc")).m)
           /\ Cleared(Update(m3, KeyMsg("enter")).m)

(***************************************************************************)
(* main: the loop that runs the TUI, hands the terminal to a child process *)
(* when the final model asks for it, and starts the TUI again.             *)
(***************************************************************************)

MaxHandoffs == 2

\* model.Init
ModelInit(mm) ==
    IF mm.s3NeedRestore /\ mm.s3CurrentBucket # <<>> /\ mm.awsClient
    THEN {loadS3Objects(mm, mm.s3CurrentBucket, mm.s3CurrentPrefix)}
    ELSE IF mm.ec2NeedRestore /\ mm.awsClient
    THEN {loadEC2Instances(mm)}
    ELSE {initAWSClient(mm)}

\* main, the head of the loop: initialModel(cfg) and the two restore blocks
RestoredModel(s3Restore, ssmRestore, savedClient) ==
    LET m0 == initialModel
        m1 == IF s3Restore # <<>>
              THEN [m0 EXCEPT !.currentScreen = s3Restore[1].screen,
                              !.s3CurrentBucket = s3Restore[1].bucket,
                              !.s3CurrentPrefix = s3Restore[1].prefix,
                              !.s3NeedRestore = TRUE,
                              !.loading = TRUE,
                              !.awsClient = IF savedClient THEN TRUE ELSE @]
              ELSE m0
    IN  IF ssmRestore # <<>>
        THEN [m1 EXCEPT !.currentScreen = "ec2Screen",
                        !.ec2NeedRestore = TRUE,
                        !.loading = TRUE,
                        !.awsClient = IF savedClient THEN TRUE ELSE @]
        ELSE m1

\* main, the tests on the final model, in the order of the code
HandoffOf(finalM) ==
    IF finalM.s3EditBucket # <<>> /\ finalM.s3EditKey # <<>> THEN "edit"
    ELSE IF finalM.ssmInstanceID = K9s THEN "k9s"
    ELSE IF finalM.ssmInstanceID = <<>> THEN "none"
    ELSE "ssm"

\* What the terminal was showing when the TUI ended.
Request(finalM) ==
    [ kind |-> HandoffOf(finalM),
      screen |-> finalM.currentScreen,
      bucket |-> finalM.s3CurrentBucket,
      prefix |-> finalM.s3CurrentPrefix,
      client |-> finalM.awsClient ]

\* p.Run(): the model and the message of the last Update of a run. The
\* client has been created and the lists loaded, except when the user
\* leaves at once.
RunEnds(tui) ==
    LET on == [tui EXCEPT !.awsClient = TRUE, !.loading = FALSE,
                          !.ec2Instances = InstancesA, !.eksClusters = ClustersA]
        browse == [on EXCEPT !.currentScreen = "s3BrowseScreen",
                             !.s3CurrentBucket = <<"j">>,
                             !.s3Objects = ObjectsA,
                             !.s3ObjectSelectedIndex = 1]
    IN  { [m |-> tui, msg |-> KeyMsg("ctrl+c")] }
        \cup { [m |-> [on EXCEPT !.currentScreen = screen], msg |-> KeyMsg("ctrl+c")] :
                 screen \in {"ec2Screen", "s3Screen", "eksScreen"} }
        \cup { [m |-> [browse EXCEPT !.s3CurrentPrefix = prefix], msg |-> KeyMsg("e")] :
                 prefix \in {<<>>, <<"e", "c", "2", "/">>} }
        \cup { [m |-> [browse EXCEPT !.currentScreen = "s3ObjectDetailsScreen",
                                     !.s3ObjectDetails = <<"j">>],
                msg |-> KeyMsg("e")] }
        \cup { [m |-> [on EXCEPT !.currentScreen = "eksScreen"], msg |-> KeyMsg("9")] }
        \cup { [m |-> [on EXCEPT !.currentScreen = "eksDetailsScreen",
                                 !.eksClusterDetails = <<"j">>],
                msg |-> KeyMsg("9")] }
        \cup { [m |-> [on EXCEPT !.currentScreen = "ec2DetailsScreen",
                                 !.ec2InstanceDetails = InstancesA[1].ID],
                msg |-> Msg("launchSSMSessionMsg", "", FALSE, InstancesA[1].ID)] }

InitMain ==
    /\ m = initialModel
    /\ AppIdle
    /\ call = [ fn |-> "main",
                pc |-> "top",
                s3Restore |-> <<>>,
                ssmRestore |-> <<>>,
                savedClient |-> FALSE,
                tui |-> initialModel,
                cmds |-> {},
                finalM |-> initialModel,
                request |-> Request(initialModel),
                handoffs |-> 0,
                children |-> {},
                ptys |-> {},
                forwarders |-> {},
                readers |-> {},
                printed |-> {},
                aborted |-> "none" ]

\* What main prints when the child of a handoff cannot be started.
StartFailure(kind) ==
    IF kind = "k9s" THEN "Failed to start k9s" ELSE "Failed to start SSM session"

\* main, a failed handoff: print the failure and continue with the next
\* iteration of the loop
AbortHandoffExits(c, message, reason) ==
    [c EXCEPT !.pc = "exited", !.printed = @ \cup {message}, !.aborted = reason]

AbortHandoff(c, message, reason) ==
    [c EXCEPT !.pc = "top", !.printed = @ \cup {message}, !.aborted = reason]

\* main: initialModel, restore, tea.NewProgram; the program starts with Init
StartTUI ==
    /\ call.pc = "top"
    /\ LET tui == RestoredModel(call.s3Restore, call.ssmRestore, call.savedClient)
       IN  call' = [call EXCEPT !.pc = "tui", !.tui = tui, !.cmds = ModelInit(tui)]
    /\ UNCHANGED <<m, inflight, running, user, searchEntry>>

\* main: p.Run() returns an error
RunFails ==
    /\ call.pc = "tui"
    /\ call' = [call EXCEPT !.pc = "exited",
                            !.request = Request(initialModel),
                            !.printed = {"Error"},
                            !.aborted = "none"]
    /\ UNCHANGED <<m, inflight, running, user, searchEntry>>

\* main: p.Run() returns the final model, after the Update that quit
RunReturns ==
    /\ call.pc = "tui"
    /\ \E end \in RunEnds(call.tui) :
          \E r \in {Update(end.m, end.msg)} :
              /\ r.quit
              /\ HandoffOf(r.m) # "none" => call.handoffs < MaxHandoffs
              /\ call' = [call EXCEPT !.pc = "decide",
                                      !.finalM = r.m,
                                      !.request = Request(r.m),
                                      !.handoffs = IF HandoffOf(r.m) # "none"
                                                   THEN @ + 1 ELSE @,
                                      !.printed = {},
                                      !.aborted = "none"]
    /\ UNCHANGED <<m, inflight, running, user, searchEntry>>

\* main: what the final model asks for, and the restore state kept for it
Decide ==
    /\ call.pc = "decide"
    /\ LET finalM == call.finalM
           kind == HandoffOf(finalM)
       IN  call' =
             IF kind = "edit"
             THEN [call EXCEPT !.pc = "editS3File",
                               !.s3Restore = << [ bucket |-> finalM.s3CurrentBucket,
                                                  prefix |-> finalM.s3CurrentPrefix,
                                                  screen |-> finalM.currentScreen ] >>,
                               !.savedClient = finalM.awsClient]
             ELSE IF kind = "k9s"
             THEN [call EXCEPT !.pc = "profile",
                               !.s3Restore = <<>>,
                               !.ssmRestore = << [ssoCredentials |-> FALSE] >>,
                               !.savedClient = finalM.awsClient]
             ELSE IF kind = "none"
             THEN [call EXCEPT !.pc = "exited",
                               !.s3Restore = <<>>,
                               !.ssmRestore = <<>>]
             ELSE [call EXCEPT !.pc = "start",
                               !.s3Restore = <<>>,
                               !.ssmRestore = << [ssoCredentials |-> FALSE] >>,
                               !.savedClient = finalM.awsClient]
    /\ UNCHANGED <<m, inflight, running, user, searchEntry>>

\* editS3File: the download fails before the editor is started
EditFailsEarly ==
    /\ call.pc = "editS3File"
    /\ call' = AbortHandoff(call, "Error editing S3 file", "download")
    /\ UNCHANGED <<m, inflight, running, user, searchEntry>>

\* editS3File: editorCmd.Run() starts the editor
EditorStarts ==
    /\ call.pc = "editS3File"
    /\ call' = [call EXCEPT !.pc = "editor", !.children = @ \cup {call.handoffs}]
    /\ UNCHANGED <<m, inflight, running, user, searchEntry>>

\* editS3File: editorCmd.Run() has waited for the editor; the upload may fail
EditorReturns ==
    /\ call.pc = "editor"
    /\ call.handoffs \notin call.children
    /\ \E ok \in BOOLEAN :
          call' = [call EXCEPT !.pc = "top",
                               !.printed = IF ok THEN @
                                           ELSE @ \cup {"Error editing S3 file"}]
    /\ UNCHANGED <<m, inflight, running, user, searchEntry>>

\* main, k9s without SSO credentials: AWS_PROFILE must be in the environment
CheckProfile ==
    /\ call.pc = "profile"
    /\ \E hasProfile \in BOOLEAN :
          call' = IF hasProfile
                  THEN [call EXCEPT !.pc = "start"]
                  ELSE AbortHandoff(call, "profile incorreto", "profile")
    /\ UNCHANGED <<m, inflight, running, user, searchEntry>>

\* main: pty.Start(k9sCmd), pty.Start(ssmCmd); then signal.Notify and the
\* goroutine that forwards the resize signals
PtyStart ==
    /\ call.pc = "start"
    /\ \E ok \in BOOLEAN :
          call' = IF ok
                  THEN [call EXCEPT !.pc = "raw",
                                    !.children = @ \cup {call.handoffs},
                                    !.ptys = @ \cup {call.handoffs},
                                    !.forwarders = @ \cup {call.handoffs}]
                  ELSE AbortHandoff(call, StartFailure(call.request.kind), "start")
    /\ UNCHANGED <<m, inflight, running, user, searchEntry>>

\* main: term.MakeRaw, then the goroutine io.Copy(ptmx, os.Stdin); on failure
\* ptmx.Close() and continue, the child is not waited for
MakeRaw ==
    /\ call.pc = "raw"
    /\ \E ok \in BOOLEAN :
          call' = IF ok
                  THEN [call EXCEPT !.pc = "copy",
                                    !.readers = @ \cup {call.handoffs}]
                  ELSE AbortHandoff([call EXCEPT !.ptys = @ \ {call.handoffs}],
                                    "Failed to set raw mode", "raw")
    /\ UNCHANGED <<m, inflight, running, user, searchEntry>>

\* main: io.Copy(os.Stdout, ptmx) returns when the child has closed the pty;
\* term.Restore, signal.Stop(ch), close(ch)
CopyReturns ==
    /\ call.pc = "copy"
    /\ call.handoffs \notin call.children
    /\ call' = [call EXCEPT !.pc = "top",
                            !.forwarders = @ \ {call.handoffs},
                            !.printed = @ \cup {"Returning to lazyaws..."}]
    /\ UNCHANGED <<m, inflight, running, user, searchEntry>>

\* a child process ends, by itself or after its pty was closed
ChildExits ==
    /\ \E child \in call.children :
          call' = [call EXCEPT !.children = @ \ {child}]
    /\ UNCHANGED <<m, inflight, running, user, searchEntry>>

\* The goroutine io.Copy(ptmx, os.Stdin) of a handoff whose child has ended
\* reads the next input of the terminal, fails to write it to the pty and ends.
StdinCopyEnds ==
    /\ \E reader \in call.readers :
          /\ reader \notin call.children
          /\ call' = [call EXCEPT !.readers = @ \ {reader}]
    /\ UNCHANGED <<m, inflight, running, user, searchEntry>>

NextMain ==
    \/ StartTUI
    \/ RunFails
    \/ RunReturns
    \/ Decide
    \/ EditFailsEarly
    \/ EditorStarts
    \/ EditorReturns
    \/ CheckProfile
    \/ PtyStart
    \/ MakeRaw
    \/ CopyReturns
    \/ ChildExits
    \/ StdinCopyEnds

SpecMain == InitMain /\ [][NextMain]_vars

\* The load task of the data a screen shows.
LoadOf(mm, screen) ==
    CASE screen \in {"s3BrowseScreen", "s3ObjectDetailsScreen"} ->
           loadS3Objects(mm, mm.s3CurrentBucket, mm.s3CurrentPrefix)
      [] screen \in {"eksScreen", "eksDetailsScreen"} -> loadEKSClusters(mm)
      [] OTHER -> loadEC2Instances(mm)

\* C27: when the TUI is started again after a handoff whose child has run
\* (SSM from the EC2 details, k9s from the EKS list or details, the editor
\* from the S3 browser or object details), it is on the screen, bucket and
\* prefix that were active when the handoff was requested, it has the client
\* of that moment, and Init issues the load task of that screen.
C27_ResumesWhereRequested ==
    (call.fn = "main" /\ call.pc = "tui" /\ call.request.kind # "none"
       /\ call.aborted = "none")
    => /\ call.tui.currentScreen = call.request.screen
       /\ call.tui.s3CurrentBucket = call.request.bucket
       /\ call.tui.s3CurrentPrefix = call.request.prefix
       /\ call.tui.awsClient = call.request.client
       /\ call.cmds = {LoadOf(call.tui, call.request.screen)}

\* C28: main returns only when the TUI ended without a handoff request; a
\* child process is started only for a handoff request, never for a plain
\* quit; and the TUI is never running while a child process is alive.
C28_ExclusiveTerminal ==
    call.fn = "main" =>
       /\ call.pc = "exited" => call.request.kind = "none"
       /\ call.pc \in {"editS3File", "editor", "profile", "start", "raw", "copy"}
             => call.request.kind # "none"
       /\ call.pc = "tui" => call.children = {}

\* C29: a restore context is used by the one initialization that follows its
\* handoff: when the TUI starts, only the context of the most recent handoff
\* sets the restored screen and the restore flags (none before the first
\* handoff; bucket, prefix and screen after an edit; the EC2 restore after
\* an SSM or k9s handoff).
C29_RestoreUsedOnce ==
    (call.fn = "main" /\ call.pc = "tui") =>
       CASE call.request.kind = "none" ->
              ~call.tui.s3NeedRestore /\ ~call.tui.ec2NeedRestore
         [] call.request.kind = "edit" ->
              /\ call.tui.s3NeedRestore
              /\ ~call.tui.ec2NeedRestore
              /\ call.tui.currentScreen = call.request.screen
         [] OTHER ->
              /\ call.tui.ec2NeedRestore
              /\ ~call.tui.s3NeedRestore

\* C30: when pty.Start or term.MakeRaw fails during an SSM or k9s handoff,
\* main does not return: it has printed the failure, it still holds the
\* restore context and the client saved for this handoff, and it goes on to
\* start the TUI again, restored from them (EC2 restore, loading, saved
\* client, Init loading the instances).
C30_FailedHandoffAborts ==
    (call.fn = "main" /\ call.aborted \in {"start", "raw"}) =>
       /\ call.request.kind \in {"k9s", "ssm"}
       /\ call.pc \in {"top", "tui"}
       /\ call.ssmRestore # <<>>
       /\ call.savedClient = call.request.client
       /\ IF call.aborted = "start"
          THEN StartFailure(call.request.kind) \in call.printed
          ELSE "Failed to set raw mode" \in call.printed
       /\ call.pc = "tui" =>
             /\ call.tui.ec2NeedRestore
             /\ call.tui.loading
             /\ call.tui.awsClient = call.request.client
             /\ call.cmds = {loadEC2Instances(call.tui)}

C30_Witness ==
    /\ call.fn = "main"
    /\ call.aborted = "raw"
    /\ call.request.kind = "k9s"
    /\ call.pc = "tui"
    /\ "Failed to set raw mode" \in call.printed

(***************************************************************************)
(* SSOAuthenticator.Authenticate: the device-authorization polling loop.   *)
(* Time is counted in seconds from the start of the loop. time.Sleep lasts *)
(* at least the interval, a token request takes some time and returns.    *)
(***************************************************************************)

MaxInterval == 3
MaxExpiresIn == 6
MaxLag == 1

\* The answers of oidcClient.CreateToken: a token, an error that
\* isAuthPending recognizes, any other error.
TokenAnswers == {"token", "pending", "error"}

\* isAuthPending
isAuthPending(answer) == answer = "pending"

\* Authenticate, the loop test with the comparison turned around
BeforeOrAt(now, expiresAt) == now <= expiresAt

\* Authenticate, the loop test: time.Now().Before(expiresAt)
Before(now, expiresAt) == now < expiresAt

\* deviceCode, interval, expiresAt of the device authorization answer
InitSSO ==
    /\ m = initialModel
    /\ AppIdle
    /\ \E interval \in 1..MaxInterval, expiresIn \in 0..MaxExpiresIn :
          call = [ fn |-> "Authenticate",
                   pc |-> "for",
                   interval |-> interval,
                   expiresIn |-> expiresIn,
                   expiresAt |-> expiresIn,
                   now |-> 0,
                   entered |-> 0,
                   requests |-> 0,
                   answer |-> "none",
                   result |-> "none" ]

\* for time.Now().Before(expiresAt); after the loop the time-out error
LoopTest ==
    /\ call.pc = "for"
    /\ call' = IF Before(call.now, call.expiresAt)
               THEN [call EXCEPT !.pc = "sleep", !.entered = call.now]
               ELSE [call EXCEPT !.pc = "returned",
                                 !.result = "SSO authorization timed out"]
    /\ UNCHANGED <<m, inflight, running, user, searchEntry>>

\* time.Sleep(interval)
Sleep ==
    /\ call.pc = "sleep"
    /\ \E lag \in 0..MaxLag :
          call' = [call EXCEPT !.pc = "CreateToken",
                               !.now = @ + call.interval + lag]
    /\ UNCHANGED <<m, inflight, running, user, searchEntry>>

\* oidcClient.CreateToken and the tests on its answer
CreateToken ==
    /\ call.pc = "CreateToken"
    /\ \E answer \in TokenAnswers, lag \in 0..MaxLag :
          call' = IF answer = "token"
                  THEN [call EXCEPT !.pc = "returned", !.result = "nil",
                                    !.answer = answer, !.requests = @ + 1,
                                    !.now = @ + lag]
                  ELSE IF isAuthPending(answer)
                  THEN [call EXCEPT !.pc = "for",
                                    !.answer = answer, !.requests = @ + 1,
                                    !.now = @ + lag]
                  ELSE [call EXCEPT !.pc = "returned",
                                    !.result = "failed to create token",
                                    !.answer = answer, !.requests = @ + 1,
                                    !.now = @ + lag]
    /\ UNCHANGED <<m, inflight, running, user, searchEntry>>

NextSSO ==
    \/ LoopTest
    \/ Sleep
    \/ CreateToken

\* The code is sequential: the sleep ends and the request returns.
SpecSSO == InitSSO /\ [][NextSSO]_vars /\ WF_vars(NextSSO)

\* ceil(a / b)
Ceil(a, b) == (a + b - 1) \div b

PollingBounded ==
    call.fn = "Authenticate" =>
       /\ call.requests <= Ceil(call.expiresIn, call.interval)
       /\ call.pc \in {"sleep", "CreateToken"} => call.entered < call.expiresAt
       /\ call.pc = "returned" =>
             /\ call.result = "nil" <=> call.answer = "token"
             /\ call.result = "failed to create token" <=> call.answer = "error"
             /\ call.result = "SSO authorization timed out"
                   <=> (call.answer \in {"none", "pending"}
                          /\ call.now >= call.expiresAt)
       /\ call.pc # "returned" =>
             call.result = "none" /\ call.answer \in {"none", "pending"}

\* C31: with a positive interval and a finite expiry Authenticate returns,
\* after at most ceil(expiresIn / interval) token requests: with the
\* time-out error when every answer was authorization-pending, with nil at
\* the first token, with an error at the first other failure; no iteration
\* of the loop starts once the expiry time is reached.
C31_PollingTerminates ==
    []PollingBounded /\ <>(call.fn = "Authenticate" /\ call.pc = "returned")

C31_Witness ==
    /\ call.fn = "Authenticate"
    /\ call.pc = "returned"
    /\ call.result = "SSO authorization timed out"
    /\ call.requests = Ceil(call.expiresIn, call.interval)
    /\ call.requests >= 2

\* --- model.ensureVisible called twice ------------------------------------

MaxOutside == 2

\* Any selectedIndex and listLength, also an index outside the list.
InitTwice ==
    /\ \E h \in Heights, o \in Offsets :
          m = [initialModel EXCEPT !.height = h, !.viewportOffset = o]
    /\ AppIdle
    /\ call \in { [ fn |-> "ensureVisible twice", selectedIndex |-> c,
                    listLength |-> n, calls |-> 0, before |-> 0, first |-> 0 ] :
                  n \in 0..MaxListLen, c \in -MaxOutside..(MaxListLen + MaxOutside) }

ensureVisibleFirst ==
    /\ call.fn = "ensureVisible twice"
    /\ call.calls = 0
    /\ m' = ensureVisible(m, call.selectedIndex, call.listLength)
    /\ call' = [call EXCEPT !.calls = 1,
                            !.before = m.viewportOffset,
                            !.first = m'.viewportOffset]
    /\ UNCHANGED <<inflight, running, user, searchEntry>>

ensureVisibleSecond ==
    /\ call.fn = "ensureVisible twice"
    /\ call.calls = 1
    /\ m' = ensureVisible(m, call.selectedIndex, call.listLength)
    /\ call' = [call EXCEPT !.calls = 2]
    /\ UNCHANGED <<inflight, running, user, searchEntry>>

NextTwice == ensureVisibleFirst \/ ensureVisibleSecond

SpecTwice == InitTwice /\ [][NextTwice]_vars

\* C32: for every selectedIndex, listLength, height and starting offset, a
\* second call of ensureVisible with the same selectedIndex and listLength
\* leaves the offset of the first call as it is.
C32_EnsureVisibleIdempotent ==
    (call.fn = "ensureVisible twice" /\ call.calls = 2)
       => m.viewportOffset = call.first

C32_Witness ==
    /\ call.fn = "ensureVisible twice"
    /\ call.calls = 2
    /\ call.listLength > AvailableHeight(m.height)
    /\ call.selectedIndex >= call.before + AvailableHeight(m.height)
    /\ call.first > call.before
    /\ call.first > 0
    /\ m.viewportOffset = call.first

\* C33: on the EC2 list, with no instance marked, each of the keys s, S, R, t
\* asks to confirm the action for the instance under the cursor of the
\* active list (the filtered view when there is one), the instance that
\* Enter opens and Space marks.
C33_ActionTargetsHighlighted ==
    ( /\ running
      /\ m.currentScreen = "ec2Screen"
      /\ m.vimState.Mode = NormalMode
      /\ ~m.showingConfirm /\ ~m.s3ConfirmDelete
      /\ m.ec2SelectedInstances = {}
      /\ Len(m.ec2Instances) > 0
      /\ m.ec2SelectedIndex < Len(Shown(m.ec2FilteredInstances, m.ec2Instances)) ) =>
        LET highlighted ==
                Shown(m.ec2FilteredInstances, m.ec2Instances)[m.ec2SelectedIndex + 1].ID
        IN  /\ Update(m, KeyMsg(" ")).m.ec2SelectedInstances = {highlighted}
            /\ \A key \in {"s", "S", "R", "t"} :
                  LET r == Update(m, KeyMsg(key)).m
                  IN  r.showingConfirm /\ r.confirmInstanceID = highlighted

\* C34: whenever loading is true, a command is in flight whose completion
\* will clear it: loading is never left true with nothing to wait for; and
\* :r, on whatever screen, sets loading only together with a load command.
C34_LoadingHasTask ==
    /\ (running /\ m.loading) => inflight # EmptyBag
    /\ ( /\ running
         /\ m.vimState.Mode = NormalMode
         /\ ~m.showingConfirm /\ ~m.s3ConfirmDelete
         /\ ~m.loading ) =>
           LET m1 == Update(m, KeyMsg(":")).m
               m2 == Update(m1, KeyMsg("r")).m
               r == Update(m2, KeyMsg("enter"))
           IN  r.m.loading => r.cmds # {}

\* A filtered view, when there is one, is the rows of the canonical list at the
\* indices of SearchResults, in their order.
Derived(filtered, canonical, results) ==
    filtered # <<>> =>
       /\ \A j \in 1..Len(results) : results[j] \in 0..(Len(canonical) - 1)
       /\ filtered = Pick(canonical, results)

\* C35: in every state, on each list screen, the filtered view is derived from
\* the current canonical list through SearchResults, also after a reload has
\* replaced the canonical list while a search is applied.
C35_FilteredFromCanonical ==
    /\ Derived(m.ec2FilteredInstances, m.ec2Instances, m.vimState.SearchResults)
    /\ Derived(m.s3FilteredBuckets, m.s3Buckets, m.vimState.SearchResults)
    /\ Derived(m.s3FilteredObjects, m.s3Objects, m.vimState.SearchResults)
    /\ Derived(m.eksFilteredClusters, m.eksClusters, m.vimState.SearchResults)
    /\ Derived(m.ssoFilteredAccounts, m.ssoAccounts, m.vimState.SearchResults)

\* C36: in every state a filtered view has rows only while LastSearch is not
\* empty: when no search is shown as applied, every screen lists its whole
\* canonical list.
C36_NoOrphanFilter ==
    m.vimState.LastSearch = <<>> =>
       /\ m.ec2FilteredInstances = <<>>
       /\ m.s3FilteredBuckets = <<>>
       /\ m.s3FilteredObjects = <<>>
       /\ m.eksFilteredClusters = <<>>
       /\ m.ssoFilteredAccounts = <<>>

(***************************************************************************)
(* Auto-refresh: the application with a user who toggles auto-refresh and  *)
(* opens Command mode, and with room for several commands in flight.       *)
(***************************************************************************)

MaxPending == 3

\* Toggles auto-refresh and opens and leaves Command mode.
Refresher ==
    [ normal |-> {"a", ":"},
      search |-> {},
      command |-> {},
      confirm |-> {} ]

InitTick ==
    /\ m = initialModel
    /\ inflight = SetToBag({initAWSClient(initialModel)})
    /\ running = TRUE
    /\ user = Refresher
    /\ searchEntry = <<>>
    /\ call = [fn |-> "tickCmd"]

\* Update has returned: the model and the commands now in flight.
TickStep(r, rest) ==
    /\ BagCardinality(rest) + Cardinality(r.cmds) <= MaxPending
    /\ m' = r.m
    /\ inflight' = rest (+) SetToBag(r.cmds)
    /\ running' = ~r.quit

\* The user presses a key: a or ':' in Normal mode, Escape in Command mode.
RefresherKey ==
    /\ running
    /\ \E key \in (IF m.vimState.Mode = NormalMode THEN user.normal ELSE {"esc"}) :
          TickStep(Update(m, KeyMsg(key)), inflight)
    /\ UNCHANGED <<user, searchEntry, call>>

\* A tick or the outcome of a command arrives and is handled.
TickDeliver ==
    /\ running
    /\ \E task \in BagToSet(inflight) :
          /\ task.client \/ task.type = "initAWSClient"
          /\ \E msg \in Outcomes(task) :
                TickStep(Update(m, msg), inflight (-) SetToBag({task}))
    /\ UNCHANGED <<user, searchEntry, call>>

NextTick == RefresherKey \/ TickDeliver \/ Panic

SpecTick == InitTick /\ [][NextTick]_vars

\* The ticks that are pending.
Ticks == CopiesIn(tickCmd, inflight)

\* C37: in every state at most one tick is pending, and while auto-refresh is
\* enabled exactly one is.
C37_OneTimer ==
    (running /\ call.fn = "tickCmd") =>
       /\ Ticks <= 1
       /\ m.autoRefresh => Ticks = 1

\* C38: the help screen is left by Escape and by q, the region screen by
\* Escape: the key leads to another screen, and previousScreen is never the
\* help or the region screen itself.
C38_HelpAndRegionLeft ==
    ( /\ running
      /\ m.vimState.Mode = NormalMode
      /\ ~m.showingConfirm /\ ~m.s3ConfirmDelete ) =>
        /\ m.currentScreen = "helpScreen" =>
              /\ Update(m, KeyMsg("esc")).m.currentScreen # "helpScreen"
              /\ Update(m, KeyMsg("q")).m.currentScreen # "helpScreen"
        /\ m.currentScreen = "regionScreen" =>
              Update(m, KeyMsg("esc")).m.currentScreen # "regionScreen"
        /\ m.currentScreen \in {"helpScreen", "regionScreen"} =>
              m.previousScreen \notin {"helpScreen", "regionScreen"}

\* C39: when the TUI runs again, the handoffs before it have left nothing
\* behind: no goroutine that reads the terminal's stdin, no goroutine that
\* forwards resize signals, no open pseudo-terminal.
C39_HandoffReleased ==
    (call.fn = "main" /\ call.pc = "tui") =>
       /\ call.readers = {}
       /\ call.forwarders = {}
       /\ call.ptys = {}

----------------------------------------------------------------------------
(* Command mode: a buffer is typed, completed with Tab and submitted with   *)
(* Enter.                                                                   *)

\* executeVimCommand: the labels of the cases of "switch cmd.Name"
CommandCases ==
    { CmdQuit, <<"q", "u", "i", "t">>,
      CmdRefresh, <<"r", "e", "f", "r", "e", "s", "h">>,
      CmdSelectAll,
      CmdDeselectAll,
      CmdClearFilter, <<"c", "l", "e", "a", "r", "f", "i", "l", "t", "e", "r">>,
      CmdHelp, <<"h">>, <<"?">>,
      CmdEC2, CmdS3, CmdEKS,
      CmdAccount, <<"a", "c", "c">>,
      CmdRegion }

\* executeVimCommand, "default:": the status message is "Unknown command: <name>"
UnknownCommand(commandStr) == ParseCommand(commandStr).Name \notin CommandCases

InitSubmit ==
    /\ m = initialModel
    /\ AppIdle
    /\ \E prefix \in Prefixes :
          call = [ fn |-> "executeVimCommand",
                   CommandBuffer |-> prefix,
                   commandSuggestions |-> GetCommandSuggestions(prefix),
                   tabs |-> 0,
                   submitted |-> <<>>,
                   unknown |-> FALSE ]

\* Update, "Handle tab completion in command mode"
SubmitTab ==
    /\ call.submitted = <<>>
    /\ call.tabs < MaxTabs
    /\ LET completed == CompleteCommand(call.CommandBuffer)
       IN  call' = [call EXCEPT
                      !.CommandBuffer = completed.text,
                      !.commandSuggestions = IF ~completed.complete
                                             THEN GetCommandSuggestions(completed.text)
                                             ELSE <<>>,
                      !.tabs = call.tabs + 1]
    /\ UNCHANGED <<m, inflight, running, user, searchEntry>>

\* Update, Enter in command mode: "If command mode was just completed, execute
\* the command"
SubmitEnter ==
    /\ call.submitted = <<>>
    /\ call.CommandBuffer # <<>>
    /\ call' = [call EXCEPT !.submitted = <<call.CommandBuffer>>,
                            !.unknown = UnknownCommand(call.CommandBuffer),
                            !.CommandBuffer = <<>>,
                            !.commandSuggestions = <<>>]
    /\ UNCHANGED <<m, inflight, running, user, searchEntry>>

NextSubmit == SubmitTab \/ SubmitEnter

SpecSubmit == InitSubmit /\ [][NextSubmit]_vars

\* C40: every command of AllCommands, submitted, is recognized: the status
\* message is not "Unknown command".
C40_VocabularyRecognized ==
    (/\ call.fn = "executeVimCommand"
     /\ call.submitted # <<>>
     /\ \E i \in 1..Len(AllCommands) : AllCommands[i] = call.submitted[1])
       => ~call.unknown


====
